---- MODULE Spec2Model ----
(***************************************************************************)
(* Dialogue reveal engine of jhoangnguyen/solid.                           *)
(*                                                                         *)
(* Part 1: the reveal queue, engine/ui/text_model.py (class TextModel).    *)
(* Part 2: the text box that owns it, engine/ui/widgets/text_box.py, with  *)
(* engine/ui/scroll_model.py and engine/ui/choice_controller.py.           *)
(*                                                                         *)
(* Time is counted in integer units of 1/90000 s, the coarsest unit in     *)
(* which every timing constant of RevealParams and the 1e-4 s tolerance of *)
(* TextModel.update are whole numbers (1/45 s = 2000 units).               *)
(* A text is a sequence of one-character strings.                          *)
(***************************************************************************)
EXTENDS Integers, Sequences, FiniteSets, TLC

VARIABLES
    reveal,         \* TextModel.reveal : RevealParams
    visible,        \* TextModel._visible : List[Entry]
    pending,        \* TextModel._pending : Deque[Entry]
    release_timer,  \* TextModel._release_timer
    nextId,         \* object identity of the next Entry created (Entry is eq=False)
    ret,            \* what the most recent call returned
    presses,        \* scenario observer: calls of on_player_press made so far
    snaps,          \* scenario observer: those calls that found the last visible entry animating
    scroller,       \* TextBox.scroller : ScrollModel
    choices,        \* TextBox.choices : ChoiceController
    rect_h,         \* TextBox.rect.h
    follow_bottom,  \* TextBox._follow_bottom
    theme,          \* TextBox.theme : Theme
    shrunk,         \* scenario observer: the last change of the metrics left less room than the offset it found
    tw,             \* a call of TextModel._compute_typewriter_timing: its arguments and what it returned
    wr,             \* a call of TextLayout.wrap: its arguments and what it returned
    view,           \* TextBox.view : TextView, its _wrap_w and its _cache
    rect_w,         \* TextBox.rect.w
    vret,           \* what the most recent call of the TextView returned or drew
    presenter,      \* NodePresenter: _prepared, _shown, _choices, _node_sizes
    inv,            \* an Inventory: max_slots, max_weight, stacks
    iret,           \* what the most recent call of the Inventory was given and returned
    hit,            \* a call of ChoiceBox.hit_test in each mode: its arguments and what they returned
    submitted       \* scenario observer: the index of submit_choice_index when it was the last call of the presenter

vars == <<reveal, visible, pending, release_timer, nextId, ret, presses, snaps,
          scroller, choices, rect_h, follow_bottom, theme, shrunk, tw, wr,
          view, rect_w, vret, presenter, submitted, inv, iret, hit>>

\* the state of the reveal queue and the state the text box adds to it
modelvars == <<reveal, visible, pending, release_timer, nextId, ret>>
boxvars == <<scroller, choices, rect_h, follow_bottom, theme, shrunk>>
\* the state of the parts checked on their own: the typewriter timing, the
\* text layout, the text view and the node presenter
partvars == <<tw, wr, view, rect_w, vret, presenter, submitted, inv, iret, hit>>
invvars == <<inv, iret>>
viewvars == <<view, rect_w, vret>>
presvars == <<presenter, submitted>>

-----------------------------------------------------------------------------
(* Bounds of the model *)

\* Entries created over a run (each Entry object has a fresh identity).
MaxEntries == 3
\* Largest argument tried for trim_oldest_entries.
MaxTrim == 4
\* on_player_press calls counted in the press scenarios.
MaxPresses == 4

-----------------------------------------------------------------------------
(* Time base and RevealParams defaults *)

UnitsPerSec == 9 * 10000

\* 1e-4 s, the tolerance in TextModel.update's last_done test
Eps == UnitsPerSec \div 10000

PerLineDelay == (15 * UnitsPerSec) \div 100
IntroDuration == (18 * UnitsPerSec) \div 100
IntroOffsetPx == 10
CharsPerSec == 45
PauseShort == (6 * UnitsPerSec) \div 100
PauseLong == (25 * UnitsPerSec) \div 100
PauseEllipsis == (35 * UnitsPerSec) \div 100

\* RevealParams(): the dataclass defaults
DefaultReveal ==
    [per_line_delay |-> PerLineDelay, intro_duration |-> IntroDuration,
     intro_offset_px |-> IntroOffsetPx]

\* RevealParams(intro_offset_px=0): _make_entry builds typewriter entries
TypewriterReveal ==
    [per_line_delay |-> PerLineDelay, intro_duration |-> IntroDuration,
     intro_offset_px |-> 0]

RevealChoices == {DefaultReveal, TypewriterReveal}

-----------------------------------------------------------------------------
(* Inputs *)

Hello == <<"H", "e", "l", "l", "o">>
World == <<"W", "o", "r", "l", "d">>
HiDot == <<"H", "i", ".">>
Empty == <<>>
NL == <<"\n">>

HelloWorld == Hello \o NL \o World

\* single lines handed to set_text / append_line / append_player_choice
Lines == {HiDot}
\* line lists handed to append_visible_lines
LineLists == {<<Hello, World>>}
\* text blocks handed to queue_lines
Blocks == {HelloWorld, Empty}
\* text blocks of the press scenarios: one, two and three lines
ScnBlocks == {HiDot \o NL, HelloWorld, HelloWorld \o NL \o HiDot}

\* frame times handed to update: zero, half an intro, an intro less the tolerance
DtSet == {0, IntroDuration \div 2, IntroDuration - Eps}

Min(a, b) == IF a <= b THEN a ELSE b
Max(a, b) == IF a >= b THEN a ELSE b

-----------------------------------------------------------------------------
(* Pure helpers *)

\* str.splitlines() for "\n" line breaks: no empty last line after a final break
RECURSIVE SplitAcc(_, _, _)
SplitAcc(s, cur, out) ==
    IF s = <<>>
    THEN IF cur = <<>> THEN out ELSE Append(out, cur)
    ELSE IF Head(s) = "\n"
         THEN SplitAcc(Tail(s), <<>>, Append(out, cur))
         ELSE SplitAcc(Tail(s), Append(cur, Head(s)), out)

SplitLines(s) == SplitAcc(s, <<>>, <<>>)

RECURSIVE SeqSum(_)
SeqSum(s) == IF s = <<>> THEN 0 ELSE Head(s) + SeqSum(Tail(s))

\* 1.0 / max(1e-6, chars_per_sec)
TwBase == UnitsPerSec \div CharsPerSec

\* the three pauses of RevealParams
Pauses(short, long, ellipsis) ==
    [pause_short |-> short, pause_long |-> long, pause_ellipsis |-> ellipsis]

DefaultPauses == Pauses(PauseShort, PauseLong, PauseEllipsis)

\* the while loop of _compute_typewriter_timing under the pauses rp; i is
\* 1-based. Yields the per-visible-character times and the pause left in carry.
RECURSIVE TwScanWith(_, _, _, _, _)
TwScanWith(rp, chars, i, carry, times) ==
    IF i > Len(chars)
    THEN [times |-> times, carry |-> carry]
    ELSE LET c == chars[i]
             t_char == TwBase + carry
         IN  IF c = "\n"
             THEN TwScanWith(rp, chars, i + 1, carry + rp.pause_long, times)
             ELSE IF c = "." /\ i + 2 <= Len(chars)
                     /\ chars[i + 1] = "." /\ chars[i + 2] = "."
             THEN \* carry is set to the ellipsis pause and never cleared here
                  TwScanWith(rp, chars, i + 3, rp.pause_ellipsis,
                             times \o <<t_char, TwBase + rp.pause_ellipsis,
                                        TwBase + rp.pause_ellipsis>>)
             ELSE IF c \in {",", ";", ":"}
             THEN TwScanWith(rp, chars, i + 1, rp.pause_short, Append(times, t_char))
             ELSE IF c \in {".", "!", "?"}
             THEN TwScanWith(rp, chars, i + 1, rp.pause_long, Append(times, t_char))
             ELSE TwScanWith(rp, chars, i + 1, 0, Append(times, t_char))

\* the loop under the default pauses
TwScan(chars, i, carry, times) == TwScanWith(DefaultPauses, chars, i, carry, times)

\* cm.append(acc / total): the running sums of times, kept as numerators
\* over the common denominator total
RECURSIVE CmAcc(_, _, _)
CmAcc(times, acc, cm) ==
    IF times = <<>> THEN cm
    ELSE CmAcc(Tail(times), acc + Head(times), Append(cm, acc + Head(times)))

\* a table of the per-character times, not of their running sums
CmPerChar(times, total) == <<0>> \o times

CmReveal(times, total) == CmAcc(times, 0, <<0>>)

\* _compute_typewriter_timing: (total, cm). The fraction cm[i] is
\* cm[i] / total; in the result (0.0, [0.0]) the one fraction is 0.0.
TypewriterTiming(rp, text) ==
    LET r == TwScanWith(rp, text, 1, 0, <<>>)
        total == SeqSum(r.times) + r.carry
    IN  IF total <= 0 THEN [total |-> 0, cm |-> <<0>>]
        ELSE [total |-> total, cm |-> CmReveal(r.times, total)]

\* total duration returned by _compute_typewriter_timing
TypewriterDuration(text) ==
    LET r == TwScan(text, 1, 0, <<>>)
        total == SeqSum(r.times) + r.carry
    IN  IF total <= 0 THEN 0 ELSE total

\* _make_entry that gives every entry a zero duration
MakeEntryInstant(id, text, animated, wait) ==
    [id |-> id, text |-> text, t |-> 0, duration |-> 0, offset_px |-> 0,
     visible |-> FALSE, wait_for_input |-> wait, is_player_choice |-> FALSE]

\* _make_entry
MakeEntry(id, text, animated, wait) ==
    LET is_typewriter == animated /\ reveal.intro_offset_px = 0
    IN  IF is_typewriter
        THEN [id |-> id, text |-> text, t |-> 0,
              duration |-> TypewriterDuration(text), offset_px |-> 0,
              visible |-> FALSE, wait_for_input |-> wait,
              is_player_choice |-> FALSE]
        ELSE [id |-> id, text |-> text, t |-> 0,
              duration |-> IF animated THEN reveal.intro_duration ELSE 0,
              offset_px |-> IF animated THEN reveal.intro_offset_px ELSE 0,
              visible |-> FALSE, wait_for_input |-> wait,
              is_player_choice |-> FALSE]

\* the return values of the calls: update's flags dict, the bool of
\* on_player_press / advance_line_now, the count of trim_oldest_entries
Ret(released, animating, changed, removed) ==
    [released |-> released, animating |-> animating,
     changed |-> changed, removed |-> removed]

NoRet == Ret(FALSE, FALSE, FALSE, 0)

-----------------------------------------------------------------------------
(* Entry bookkeeping shared by the operations *)

Settled(e) == e.t >= e.duration
Animating(e) == e.t < e.duration

\* "if self._visible: last = self._visible[-1]; if last.t < last.duration"
LastAnimating(vis) == vis # <<>> /\ Animating(vis[Len(vis)])

\* last_done that never waits for the animation
LastDoneAlways(vis) == TRUE

\* last_done of TextModel.update
LastDone(vis) ==
    vis = <<>> \/ vis[Len(vis)].t >= vis[Len(vis)].duration - Eps

\* _release_next that pops the newest entry
ReleaseNextLifo(vis, pend) ==
    [visible |-> Append(vis, [pend[Len(pend)] EXCEPT !.visible = TRUE]),
     pending |-> SubSeq(pend, 1, Len(pend) - 1)]

\* _release_next: popleft, mark visible, append
ReleaseNext(vis, pend) ==
    [visible |-> Append(vis, [Head(pend) EXCEPT !.visible = TRUE]),
     pending |-> Tail(pend)]

\* append_line that marks the queued entry visible at once
AppendLineToShown(vis, pend, id, line, animated, wait) ==
    LET e == MakeEntry(id, line, animated, wait)
    IN  IF animated \/ wait
        THEN [visible |-> vis, pending |-> Append(pend, [e EXCEPT !.visible = TRUE])]
        ELSE [visible |-> Append(vis, [e EXCEPT !.visible = TRUE, !.t = e.duration]),
              pending |-> pend]

\* the branch of append_line on "animated or wait_for_input"
AppendLineTo(vis, pend, id, line, animated, wait) ==
    LET e == MakeEntry(id, line, animated, wait)
    IN  IF animated \/ wait
        THEN [visible |-> vis, pending |-> Append(pend, e)]
        ELSE [visible |-> Append(vis, [e EXCEPT !.visible = TRUE, !.t = e.duration]),
              pending |-> pend]

\* the loop of queue_lines over the split lines, each through append_line(animated=True)
RECURSIVE QueueLoop(_, _, _, _, _)
QueueLoop(vis, pend, id, lines, wait) ==
    IF lines = <<>>
    THEN [visible |-> vis, pending |-> pend]
    ELSE LET r == AppendLineTo(vis, pend, id, Head(lines), TRUE, wait)
         IN  QueueLoop(r.visible, r.pending, id + 1, Tail(lines), wait)

\* the loop of append_visible_lines: visible at once, t = 0
RECURSIVE VisibleLoop(_, _, _, _)
VisibleLoop(vis, id, lines, animated) ==
    IF lines = <<>>
    THEN vis
    ELSE LET e == MakeEntry(id, Head(lines), animated, FALSE)
         IN  VisibleLoop(Append(vis, [e EXCEPT !.visible = TRUE, !.t = 0]),
                         id + 1, Tail(lines), animated)

\* the advance without the clamp
AdvanceEntryNoClamp(e, dt) ==
    IF e.t < e.duration THEN [e EXCEPT !.t = e.t + dt] ELSE e

\* the advance wrapping round at the duration
AdvanceEntryWrap(e, dt) ==
    IF e.t < e.duration THEN [e EXCEPT !.t = (e.t + dt) % e.duration] ELSE e

\* one pass of the "for e in self._visible" loop of update
AdvanceEntry(e, dt) ==
    IF e.t < e.duration THEN [e EXCEPT !.t = Min(e.duration, e.t + dt)] ELSE e

\* update that auto-releases whatever the head's wait_for_input says
TimerRunsAnyHead(vis, pend) ==
    pend # <<>> /\ LastDone(vis)

\* update: is the release timer accumulated this tick?
TimerRuns(vis, pend) ==
    pend # <<>> /\ ~Head(pend).wait_for_input /\ LastDone(vis)

\* the count without the clamp to the length
TrimCountNoClamp(n, vis) ==
    IF n <= 0 \/ vis = <<>> THEN 0 ELSE n

\* trim_oldest_entries: how many entries are deleted
TrimCount(n, vis) ==
    IF n <= 0 \/ vis = <<>> THEN 0 ELSE Min(n, Len(vis))

\* del self._visible[:k]
DropFront(vis, k) == SubSeq(vis, k + 1, Len(vis))

-----------------------------------------------------------------------------
(* Part 2: the text box, engine/ui/widgets/text_box.py (class TextBox),     *)
(* with its ScrollModel, ChoiceController and the ChoiceBox geometry.       *)
(*                                                                          *)
(* Lengths are whole pixels. Every text of the model fits the wrap width,   *)
(* so a text is laid out as one row per explicit line; a row is as high as  *)
(* the font's line size. text_box.py calls TextView(theme),                 *)
(* ChoiceBox.calc_height and ChoiceBox.hit_test without the FontCache that  *)
(* text_view.py and choice_box.py take as a parameter; the font enters the  *)
(* model through FontLineSize only, so the calls are modelled as resolved.  *)

\* Theme(): the fields the heights depend on and, as settings.py sets them
\* on the theme, the choice panel's inset, padding and slide distance
DefaultTheme ==
    [padding_t |-> 24, padding_b |-> 24, padding_l |-> 28, padding_r |-> 28,
     scrollbar_width |-> 6, scrollbar_margin |-> 8,
     line_spacing |-> 8, entry_gap |-> 8,
     font_size |-> 22, choice_inset_px |-> 12, choice_pad_t |-> 8,
     choice_pad_b |-> 8, choice_slide_px |-> 8]

\* a theme built from ui defaults that set choice.slide_px
SlideTheme == [DefaultTheme EXCEPT !.choice_slide_px = 16]

Themes == {DefaultTheme, SlideTheme}

\* font.get_linesize() of the theme font
FontLineSize(th) == th.font_size + 2

\* RevealParams.stick_to_bottom_threshold_px
StickToBottomPx == 24

\* ChoiceController.anim_dur
AnimDur == (18 * UnitsPerSec) \div 100

\* the slide distance TextBox.choice_hover_at / choice_click use
HitSlidePx == 8

\* Optional[int]
None == <<>>
Some(i) == <<i>>

(* ScrollModel *)

ScrollModel(content_h, viewport_h, offset) ==
    [content_h |-> content_h, viewport_h |-> viewport_h, offset |-> offset]

ScrollMax(s) == Max(0, s.content_h - s.viewport_h)

ClampNone(s) == s

Clamp(s) == [s EXCEPT !.offset = Max(0, Min(ScrollMax(s), s.offset))]

ScrollBy(s, dy) == Clamp([s EXCEPT !.offset = s.offset + dy])

ToTop(s) == [s EXCEPT !.offset = 0]

ToBottom(s) == [s EXCEPT !.offset = ScrollMax(s)]

(* ChoiceController *)

\* ChoiceController(): the dataclass defaults, also the state hide() leaves
NoChoices ==
    [lines |-> <<>>, sel |-> -1, hover |-> -1, anim_t |-> 0,
     anchor_bottom |-> FALSE]

Show(lines, anchor_bottom) ==
    [lines |-> lines, sel |-> IF lines # <<>> THEN 0 ELSE -1, hover |-> -1,
     anim_t |-> 0, anchor_bottom |-> anchor_bottom]

\* a hide that leaves the cursor where it was
HideKeepSel(c) == [NoChoices EXCEPT !.sel = c.sel]

\* hide() on the controller c
HideOf(c) == NoChoices

Hide == NoChoices

Active(c) == c.lines # <<>>

\* the remainder of a division that truncates toward zero
TruncRem(a, n) == IF a >= 0 THEN a % n ELSE -((-a) % n)

MoveTrunc(c, delta) ==
    IF c.lines = <<>> THEN c
    ELSE [c EXCEPT !.sel = TruncRem(c.sel + delta, Len(c.lines))]

\* move: Python's % takes the sign of the divisor, as TLA+'s % does
Move(c, delta) ==
    IF c.lines = <<>> THEN c
    ELSE [c EXCEPT !.sel = (c.sel + delta) % Len(c.lines)]

SetHoverOnly(c, idx) ==
    [c EXCEPT !.hover = IF idx = None THEN -1 ELSE idx[1]]

\* set_hover_index
SetHoverIndex(c, idx) ==
    IF idx = None
    THEN [c EXCEPT !.hover = -1]
    ELSE [c EXCEPT !.hover = idx[1], !.sel = idx[1]]

\* tick
Tick(c, dt) ==
    IF c.anim_t < AnimDur
    THEN [c EXCEPT !.anim_t = Min(AnimDur, c.anim_t + Max(0, dt))]
    ELSE c

(* TextLayout / TextView / TextModel: heights *)

\* TextLayout.wrap: the rows of a text, none for the empty text
WrapCount(text) == Len(SplitLines(text))

\* TextLayout.render_lines: the stacked height of the rows
LayoutHeight(th, text) ==
    LET k == WrapCount(text)
    IN  IF k = 0 THEN 0 ELSE k * FontLineSize(th) + (k - 1) * th.line_spacing

\* TextView.content_height
ContentHeight(th, vis) ==
    IF vis = <<>> THEN 0
    ELSE SeqSum([i \in 1..Len(vis) |-> LayoutHeight(th, vis[i].text)])
         + (Len(vis) - 1) * th.entry_gap

\* TextModel.last_entry_anim_offset: int((1 - t/duration) * offset_px)
LastEntryAnimOffset(vis) ==
    IF vis = <<>> THEN 0
    ELSE LET e == vis[Len(vis)]
         IN  IF e.duration <= 0 \/ e.t >= e.duration THEN 0
             ELSE ((e.duration - e.t) * e.offset_px) \div e.duration

(* ChoiceBox *)

\* _wrap_text_to_width: at least one row
ChoiceWrapCount(text) == Max(1, Len(SplitLines(text)))

\* item_h = pad_t + lines_h + pad_b
ItemHeight(th, text) ==
    LET k == ChoiceWrapCount(text)
    IN  th.choice_pad_t + (k * FontLineSize(th) + (k - 1) * th.line_spacing)
        + th.choice_pad_b

\* ChoiceBox.calc_height
CalcHeight(th, lines) ==
    th.choice_inset_px * 2
    + SeqSum([i \in 1..Len(lines) |-> ItemHeight(th, lines[i]) + th.line_spacing])
    - (IF lines # <<>> THEN th.line_spacing ELSE 0)

\* slide_offset = int((1 - u) * slide_px), u = min(1, anim_t / anim_duration)
SlideOffset(slide_px, anim_t) ==
    IF AnimDur <= 0 THEN 0
    ELSE ((AnimDur - Min(AnimDur, anim_t)) * slide_px) \div AnimDur

\* ChoiceBox.draw_flow: the y at which the panel is painted
DrawPanelY(th, y_top, anim_t) ==
    y_top + th.choice_inset_px - SlideOffset(th.choice_slide_px, anim_t)

\* ChoiceBox.draw_flow: the y at which row idx (from 1) of the panel is painted
RECURSIVE DrawRowY(_, _, _, _)
DrawRowY(th, lines, panel_y, idx) ==
    IF idx <= 1 THEN panel_y
    ELSE DrawRowY(th, lines, panel_y, idx - 1)
         + ItemHeight(th, lines[idx - 1]) + th.line_spacing

\* the loop of ChoiceBox.hit_test; on_text: the pointer's x lies within the
\* text of the row its y falls in
RECURSIVE HitRows(_, _, _, _, _, _, _)
HitRows(th, lines, idx, y, vy, on_text, strict_text_x) ==
    IF idx > Len(lines) THEN None
    ELSE LET item_h == ItemHeight(th, lines[idx])
         IN  IF y <= vy /\ vy < y + item_h
             THEN IF ~strict_text_x \/ on_text THEN Some(idx - 1) ELSE None
             ELSE HitRows(th, lines, idx + 1, y + item_h + th.line_spacing,
                          vy, on_text, strict_text_x)

\* ChoiceBox.hit_test
HitTest(th, lines, y_top, vy, on_text, strict_text_x) ==
    IF lines = <<>> THEN None
    ELSE HitRows(th, lines, 1, y_top + th.choice_inset_px, vy, on_text,
                 strict_text_x)

(* TextBox: derived quantities *)

\* TextBox.viewport_height
ViewportHeight(th, rh) == Max(0, rh - (th.padding_t + th.padding_b))

\* TextBox._choice_gap_above
ChoiceGapAbove(th) == Max(th.entry_gap, th.line_spacing)

\* TextBox._visual_content_height
VisualContentHeight(th, vis, c) ==
    ContentHeight(th, vis) + LastEntryAnimOffset(vis)
    + (IF Active(c) THEN ChoiceGapAbove(th) + CalcHeight(th, c.lines) ELSE 0)

SyncNoClamp(s, th, rh, vis, c) ==
    [s EXCEPT !.viewport_h = ViewportHeight(th, rh),
              !.content_h = VisualContentHeight(th, vis, c)]

\* TextBox._sync_scroll_metrics
SyncScrollMetrics(s, th, rh, vis, c) ==
    Clamp([s EXCEPT !.viewport_h = ViewportHeight(th, rh),
                    !.content_h = VisualContentHeight(th, vis, c)])

\* the test of TextBox._near_bottom on freshly synced metrics
NearBottom(s) == (ScrollMax(s) - s.offset) <= Max(0, StickToBottomPx)

\* TextBox.is_at_bottom: within 1e-3 px of the bottom
IsAtBottom(s) == (ScrollMax(s) - s.offset) * 1000 <= 1

\* TextBox._choice_y_flow, and the y_flow of TextBox.draw; viewport.y is the
\* top padding
ChoiceYFlow(th, s, vis) ==
    th.padding_t - s.offset + ContentHeight(th, vis) + LastEntryAnimOffset(vis)
    + ChoiceGapAbove(th)

\* the rect the TextBox is constructed with: 448 px high
DefaultRectH == 400 + 48

-----------------------------------------------------------------------------
(* TextLayout: wrapping to a width.                                        *)
(* font.size(s)[0] is taken as the sum of the advances of the characters   *)
(* of s: a wide letter, a narrow letter and the space. _strip_markup is    *)
(* the identity on the texts of the model, which hold no {b} or {i} tag.   *)

\* advance of one character in pixels
CharWidth(c) == IF c = "W" THEN 20 ELSE IF c = " " THEN 5 ELSE 10

\* measure(s)[0]
RECURSIVE Measure(_)
Measure(s) == IF s = <<>> THEN 0 ELSE CharWidth(Head(s)) + Measure(Tail(s))

\* raw.split(" "): the pieces between single spaces, empty ones kept
RECURSIVE SplitWordsAcc(_, _, _)
SplitWordsAcc(s, cur, out) ==
    IF s = <<>> THEN Append(out, cur)
    ELSE IF Head(s) = " "
         THEN SplitWordsAcc(Tail(s), <<>>, Append(out, cur))
         ELSE SplitWordsAcc(Tail(s), Append(cur, Head(s)), out)

SplitWords(raw) == SplitWordsAcc(raw, <<>>, <<>>)

\* a search that accepts no prefix and takes nothing
BestPrefixNone(word, i, lo, hi, best, wrap_w) == 0

\* a search that accepts every prefix and takes the rest of the word
BestPrefixAll(word, i, lo, hi, best, wrap_w) == hi

\* the binary search of _hard_wrap_long_word over the prefixes of word[i:],
\* i 0-based: the length of the chunk taken
RECURSIVE BestPrefix(_, _, _, _, _, _)
BestPrefix(word, i, lo, hi, best, wrap_w) ==
    IF lo > hi THEN best
    ELSE LET mid == (lo + hi) \div 2
             seg == SubSeq(word, i + 1, i + mid)
         IN  IF Measure(seg) <= wrap_w
             THEN BestPrefix(word, i, mid + 1, hi, mid, wrap_w)
             ELSE BestPrefix(word, i, lo, mid - 1, best, wrap_w)

\* the outer loop of _hard_wrap_long_word from position i
RECURSIVE HardWrapFrom(_, _, _, _)
HardWrapFrom(word, i, wrap_w, parts) ==
    IF i >= Len(word) THEN parts
    ELSE LET best == BestPrefix(word, i, 1, Len(word) - i, 1, wrap_w)
             seg == SubSeq(word, i + 1, i + best)
         IN  IF seg = <<>> THEN parts
             ELSE HardWrapFrom(word, i + best, wrap_w, Append(parts, seg))

\* _hard_wrap_long_word
HardWrapLongWord(word, wrap_w) == HardWrapFrom(word, 0, wrap_w, <<>>)

\* the loop over the words of one raw line in wrap; yields out with the
\* last line appended
RECURSIVE WrapWords(_, _, _, _)
WrapWords(words, cur, out, wrap_w) ==
    IF words = <<>> THEN Append(out, cur)
    ELSE LET w == Head(words)
             cand == IF cur = <<>> THEN w ELSE cur \o <<" ">> \o w
             flushed == IF cur # <<>> THEN Append(out, cur) ELSE out
         IN  IF Measure(cand) <= wrap_w
             THEN WrapWords(Tail(words), cand, out, wrap_w)
             ELSE IF Measure(w) <= wrap_w
             THEN WrapWords(Tail(words), w, flushed, wrap_w)
             ELSE LET chunks == HardWrapLongWord(w, wrap_w)
                  IN  IF chunks # <<>>
                      THEN WrapWords(Tail(words), chunks[Len(chunks)],
                                     flushed \o SubSeq(chunks, 1, Len(chunks) - 1), wrap_w)
                      ELSE WrapWords(Tail(words), <<>>, flushed, wrap_w)

\* the loop over text.splitlines() in wrap
RECURSIVE WrapRaws(_, _, _)
WrapRaws(raws, out, wrap_w) ==
    IF raws = <<>> THEN out
    ELSE WrapRaws(Tail(raws), WrapWords(SplitWords(Head(raws)), <<>>, out, wrap_w), wrap_w)

\* a wrap that gives an empty text one empty line
WrapKeepEmpty(text, wrap_w) ==
    IF text = <<>> THEN << <<>> >> ELSE WrapRaws(SplitLines(text), <<>>, wrap_w)

\* TextLayout.wrap
Wrap(text, wrap_w) ==
    IF wrap_w <= 0 THEN (IF text # <<>> THEN <<text>> ELSE <<>>)
    ELSE IF text = <<>> THEN <<>>
    ELSE WrapRaws(SplitLines(text), <<>>, wrap_w)

-----------------------------------------------------------------------------
(* TextView: the layout cache and the drawing of the entries.               *)
(* The cache maps the identity of an Entry to its _Layout; a layout also    *)
(* carries the width it was wrapped at, which the code does not store.      *)

\* the width content_height wraps at when no positive width is set
FallbackWrapW == 1024

\* width of the rect the text box is built with
DefaultRectW == 45 + 70

EmptyCache == [id \in {} |-> 0]

\* TextView.__init__
NoView == [wrap_w |-> -1, cache |-> EmptyCache]

\* no call of the view has returned
NoVret == [op |-> "none", height |-> 0, raised |-> FALSE, drawn |-> <<>>,
           indicator |-> None]

\* viewport_rect(widget_rect).width
ViewportWidth(th, rw) ==
    Max(0, rw - (th.padding_l + th.padding_r
                 + Max(0, th.scrollbar_width + th.scrollbar_margin)))

\* render_lines: the stacked height of wrapped lines
RenderHeight(th, lines) ==
    IF lines = <<>> THEN 0
    ELSE Len(lines) * FontLineSize(th) + (Len(lines) - 1) * th.line_spacing

\* _layout_entry
LayoutEntry(th, e, wrap_w) ==
    LET lines == Wrap(e.text, wrap_w)
    IN  [lines |-> lines, height |-> RenderHeight(th, lines),
         total_chars |-> SeqSum([k \in 1..Len(lines) |-> Len(lines[k])]),
         at |-> wrap_w]

\* the entry of the list that has the identity id
EntryOf(entries, id) == entries[CHOOSE i \in 1..Len(entries) : entries[i].id = id]

EntryIds(entries) == {entries[i].id : i \in 1..Len(entries)}

\* an ensure_layout that keeps what is cached whatever the width
EnsureLayoutKeep(v, th, wrap_w, entries) ==
    [wrap_w |-> wrap_w,
     cache |-> [id \in EntryIds(entries) |->
                  IF id \in DOMAIN v.cache THEN v.cache[id]
                  ELSE LayoutEntry(th, EntryOf(entries, id), wrap_w)]]

\* ensure_layout
EnsureLayout(v, th, wrap_w, entries) ==
    IF wrap_w <= 0 THEN [wrap_w |-> wrap_w, cache |-> EmptyCache]
    ELSE IF wrap_w # v.wrap_w
    THEN [wrap_w |-> wrap_w,
          cache |-> [id \in EntryIds(entries) |->
                       LayoutEntry(th, EntryOf(entries, id), wrap_w)]]
    ELSE [wrap_w |-> wrap_w,
          cache |-> [id \in EntryIds(entries) |->
                       IF id \in DOMAIN v.cache THEN v.cache[id]
                       ELSE LayoutEntry(th, EntryOf(entries, id), wrap_w)]]

\* invalidate_layout
InvalidateLayout(v) == [wrap_w |-> -1, cache |-> EmptyCache]

\* content_height fills the cache for the entries it does not find in it
FillCache(v, th, entries) ==
    LET w == IF v.wrap_w > 0 THEN v.wrap_w ELSE FallbackWrapW
    IN  [v EXCEPT !.cache =
            [id \in DOMAIN v.cache \cup EntryIds(entries) |->
                IF id \in DOMAIN v.cache THEN v.cache[id]
                ELSE LayoutEntry(th, EntryOf(entries, id), w)]]

\* content_height: the total it returns, read from the filled cache
CachedHeight(v, th, entries) ==
    IF entries = <<>> THEN 0
    ELSE SeqSum([i \in 1..Len(entries) |-> v.cache[entries[i].id].height])
         + (Len(entries) - 1) * th.entry_gap

\* is_typing in draw_into
IsTyping(e) == e.duration > 0 /\ e.offset_px = 0

\* int((1 - u) * offset_px) with u = _ease_out_cubic(t / duration); the
\* share of the duration still to run is taken in whole per cent
EntrySlide(e) ==
    IF IsTyping(e) \/ e.duration <= 0 \/ e.t >= e.duration THEN 0
    ELSE LET r == ((e.duration - e.t) * 100) \div e.duration
         IN  (r * r * r * e.offset_px) \div 1000000

\* chars_to_show: bisect_right(cm_reveal, frac) - 1, clamped to the layout.
\* cm_reveal is the table _make_entry stored for the text of the entry.
CharsToShow(e, lay) ==
    IF ~IsTyping(e) THEN lay.total_chars
    ELSE LET tm == TypewriterTiming(DefaultPauses, e.text)
             t == Max(0, Min(e.duration, e.t))
             upto == Cardinality({i \in 1..Len(tm.cm) : tm.cm[i] * e.duration <= t * tm.total})
         IN  Max(0, Min(lay.total_chars, upto - 1))

\* The loop of draw_into over the surfaces of one entry, y counted from the
\* top of the viewport. Yields for each sub-line its length, whether it
\* passed the viewport test and the characters blitted from it.
RECURSIVE DrawRows(_, _, _, _, _, _, _, _, _)
DrawRows(lines, j, y, budget, typing, off, vh, th, rows) ==
    IF j > Len(lines) THEN [rows |-> rows, y |-> y]
    ELSE LET h == FontLineSize(th)
             inview == y + h + off >= 0 /\ y + off <= vh
             shown == IF ~inview THEN 0
                      ELSE IF typing THEN Max(0, Min(Len(lines[j]), budget))
                      ELSE Len(lines[j])
             budget1 == IF inview /\ typing THEN Max(0, budget - Len(lines[j])) ELSE budget
             y1 == y + h + (IF j < Len(lines) THEN th.line_spacing ELSE 0)
         IN  DrawRows(lines, j + 1, y1, budget1, typing, off, vh, th,
                      Append(rows, [len |-> Len(lines[j]), inview |-> inview, shown |-> shown]))

\* the loop of draw_into over the entries
RECURSIVE DrawEntries(_, _, _, _, _, _, _)
DrawEntries(v, entries, idx, y, vh, th, drawn) ==
    IF idx > Len(entries) THEN drawn
    ELSE LET e == entries[idx]
             lay == v.cache[e.id]
             budget == CharsToShow(e, lay)
             r == DrawRows(lay.lines, 1, y, budget, IsTyping(e), EntrySlide(e), vh, th, <<>>)
             y1 == r.y + (IF idx < Len(entries) THEN th.entry_gap ELSE 0)
         IN  DrawEntries(v, entries, idx + 1, y1, vh, th,
                         Append(drawn, [id |-> e.id, typing |-> IsTyping(e),
                                        budget |-> budget, rows |-> r.rows]))

\* a bookmark test that does not look at wait_for_input
WaitSettledAny(e) == e.t >= e.duration - Eps

\* draw_into: "e.wait_for_input and e.t >= e.duration - 1e-4"
WaitSettled(e) == e.wait_for_input /\ e.t >= e.duration - Eps

\* indicator_pos of draw_into, (x_end, y_top, line_h): set in the loop over
\* the surfaces at the last sub-line of the last entry, so never for an
\* entry without sub-lines; viewport.x and viewport.y are the paddings
IndicatorPos(v, th, entries, scroll_y) ==
    IF entries = <<>> THEN None
    ELSE LET n == Len(entries)
             e == entries[n]
             lay == v.cache[e.id]
             k == Len(lay.lines)
             y0 == th.padding_t - scroll_y
                   + SeqSum([i \in 1..(n - 1) |->
                               v.cache[entries[i].id].height + th.entry_gap])
             y == y0 + (k - 1) * (FontLineSize(th) + th.line_spacing)
         IN  IF k > 0 /\ WaitSettled(e)
             THEN Some([x_end |-> th.padding_l + Measure(lay.lines[k]),
                        y_top |-> y + EntrySlide(e),
                        line_h |-> FontLineSize(th)])
             ELSE None

\* draw_into: the view after its ensure_layout, whether self._cache[e]
\* raised KeyError, what was blitted and where the indicator was anchored
DrawInto(v, th, rw, rh, entries, scroll_y) ==
    LET v1 == EnsureLayout(v, th, ViewportWidth(th, rw), entries)
    IN  IF \E i \in 1..Len(entries) : entries[i].id \notin DOMAIN v1.cache
        THEN [view |-> v1, raised |-> TRUE, drawn |-> <<>>, indicator |-> None]
        ELSE [view |-> v1, raised |-> FALSE,
              indicator |-> IndicatorPos(v1, th, entries, scroll_y),
              drawn |-> DrawEntries(v1, entries, 1, 0 - scroll_y,
                                    ViewportHeight(th, rh), th, <<>>)]

-----------------------------------------------------------------------------
(* Operations of TextModel *)

\* no call of _compute_typewriter_timing has been made on its own
NoTw == [text |-> <<>>, rp |-> DefaultPauses, out |-> <<>>]

\* no call of wrap has been made on its own
NoWr == [text |-> <<>>, wrap_w |-> 0, out |-> <<>>]

\* the TextBox is as wide as the default rect and its view has drawn nothing
ViewIdle == view = NoView /\ rect_w = DefaultRectW /\ vret = NoVret

\* narrative/types.py: Choice(id, text, goto) and Node(say, choices)
Choice(id, text, goto) == [id |-> id, text |-> text, goto |-> goto]
Node(say, chs) == [say |-> say, choices |-> chs]

Go == <<"G", "o">>
Wip == <<"W", "i", "p">>
Lost == <<"L", "o", "s", "t">>

\* Story.nodes: the start offers a choice that leads on, a work-in-progress
\* choice (goto None), and a choice whose destination is not in the story;
\* the end offers nothing
StoryNodes ==
    [start |-> Node(HelloWorld, <<Choice(Go, Go, Some("end")),
                                  Choice(Wip, Wip, None),
                                  Choice(Lost, Empty, Some("lost"))>>),
     end   |-> Node(HiDot, <<>>)]

\* NodePresenter.__init__ as NovelScene calls it by default: no
\* clear_after_nodes, no separator; nothing prepared, nothing shown, no node
\* counted
NoPresenter ==
    [story |-> StoryNodes, clear_after_nodes |-> None,
     insert_node_separator |-> FALSE, separator_text |-> <<"-">>,
     prepared |-> None, shown |-> FALSE, choices |-> None, node_sizes |-> <<>>]

PresenterIdle == presenter = NoPresenter /\ submitted = None

\* Inventory(): the defaults, 30 slots and 80.0 of weight (in tenths), no stack
DefaultInventory == [max_slots |-> Some(30), max_weight |-> Some(800), stacks |-> <<>>]

\* no call of the inventory has returned
NoIret == [op |-> "none", id |-> "", qty |-> 0, out |-> 0]

InventoryIdle == inv = DefaultInventory /\ iret = NoIret

\* no call of hit_test has been made on its own
NoHit == [lines |-> <<>>, y_top |-> 0, vx |-> 0, vy |-> 0, out |-> <<>>]

HitIdle == hit = NoHit

PartsIdle ==
    tw = NoTw /\ wr = NoWr /\ ViewIdle /\ PresenterIdle /\ InventoryIdle /\ HitIdle

Init ==
    /\ reveal \in RevealChoices
    /\ visible = <<>>
    /\ pending = <<>>
    /\ release_timer = 0
    /\ nextId = 0
    /\ ret = NoRet
    /\ presses = 0
    /\ snaps = 0
    /\ rect_h = DefaultRectH
    /\ theme = DefaultTheme
    /\ scroller = ScrollModel(0, ViewportHeight(DefaultTheme, DefaultRectH), 0)
    /\ choices = NoChoices
    /\ follow_bottom = TRUE
    /\ shrunk = FALSE
    /\ PartsIdle

Clear ==
    /\ visible' = <<>>
    /\ pending' = <<>>
    /\ release_timer' = 0
    /\ ret' = NoRet
    /\ UNCHANGED <<reveal, nextId>>

SetText(text) ==
    /\ LET e == MakeEntry(nextId, text, FALSE, FALSE)
       IN  visible' = <<[e EXCEPT !.visible = TRUE, !.t = e.duration]>>
    /\ pending' = <<>>
    /\ release_timer' = 0
    /\ nextId' = nextId + 1
    /\ ret' = NoRet
    /\ UNCHANGED reveal

QueueLines(block, wait) ==
    LET lines == SplitLines(block)
        r == QueueLoop(visible, pending, nextId, lines, wait)
    IN  /\ visible' = r.visible
        /\ pending' = r.pending
        /\ nextId' = nextId + Len(lines)
        /\ ret' = NoRet
        /\ UNCHANGED <<reveal, release_timer>>

AppendLine(line, animated, wait) ==
    LET r == AppendLineTo(visible, pending, nextId, line, animated, wait)
    IN  /\ visible' = r.visible
        /\ pending' = r.pending
        /\ nextId' = nextId + 1
        /\ ret' = NoRet
        /\ UNCHANGED <<reveal, release_timer>>

AppendVisibleLines(lines, animated) ==
    /\ visible' = VisibleLoop(visible, nextId, lines, animated)
    /\ nextId' = nextId + Len(lines)
    /\ ret' = NoRet
    /\ UNCHANGED <<reveal, pending, release_timer>>

AppendPlayerChoice(line, animated) ==
    /\ LET e == MakeEntry(nextId, line, animated, FALSE)
       IN  visible' = Append(visible, [e EXCEPT !.visible = TRUE,
                                                !.is_player_choice = TRUE,
                                                !.t = 0])
    /\ nextId' = nextId + 1
    /\ ret' = NoRet
    /\ UNCHANGED <<reveal, pending, release_timer>>

TrimOldestEntries(n) ==
    LET k == TrimCount(n, visible)
    IN  /\ UNCHANGED <<reveal, pending, release_timer, nextId>>
        /\ visible' = DropFront(visible, k)
        /\ ret' = Ret(FALSE, FALSE, FALSE, k)

Update(dt) ==
    LET runs == TimerRuns(visible, pending)
        timer1 == IF runs THEN release_timer + dt ELSE release_timer
        released == runs /\ timer1 >= reveal.per_line_delay
        r == IF released
             THEN ReleaseNext(visible, pending)
             ELSE [visible |-> visible, pending |-> pending]
        animating == \E i \in 1..Len(r.visible) : r.visible[i].t < r.visible[i].duration
    IN  /\ UNCHANGED <<reveal, nextId>>
        /\ release_timer' = IF released THEN 0 ELSE timer1
        /\ pending' = r.pending
        /\ visible' = [i \in 1..Len(r.visible) |-> AdvanceEntry(r.visible[i], dt)]
        /\ ret' = Ret(released, animating, FALSE, 0)

\* on_player_press as the older widget had it: finish the line and go on to release
OnPlayerPressBoth ==
    LET vis1 == IF LastAnimating(visible)
                THEN [visible EXCEPT ![Len(visible)].t = visible[Len(visible)].duration]
                ELSE visible
        r == IF pending # <<>>
             THEN ReleaseNext(vis1, pending)
             ELSE [visible |-> vis1, pending |-> pending]
    IN  /\ visible' = r.visible
        /\ pending' = r.pending
        /\ release_timer' = IF pending # <<>> THEN 0 ELSE release_timer
        /\ ret' = Ret(FALSE, FALSE, LastAnimating(visible) \/ pending # <<>>, 0)
        /\ UNCHANGED <<reveal, nextId>>

OnPlayerPress ==
    IF LastAnimating(visible)
    THEN \* 1) finish the current line, consume the press
         /\ visible' = [visible EXCEPT ![Len(visible)].t = visible[Len(visible)].duration]
         /\ ret' = Ret(FALSE, FALSE, TRUE, 0)
         /\ UNCHANGED <<reveal, pending, release_timer, nextId>>
    ELSE IF pending # <<>>
    THEN \* 2) nothing to finish: release the next line
         LET r == ReleaseNext(visible, pending)
         IN  /\ release_timer' = 0
             /\ visible' = r.visible
             /\ pending' = r.pending
             /\ ret' = Ret(FALSE, FALSE, TRUE, 0)
             /\ UNCHANGED <<reveal, nextId>>
    ELSE /\ ret' = NoRet
         /\ UNCHANGED <<reveal, visible, pending, release_timer, nextId>>

AdvanceLineNow ==
    IF pending # <<>>
    THEN LET r == ReleaseNext(visible, pending)
         IN  /\ release_timer' = 0
             /\ visible' = r.visible
             /\ pending' = r.pending
             /\ ret' = Ret(FALSE, FALSE, TRUE, 0)
             /\ UNCHANGED <<reveal, nextId>>
    ELSE /\ ret' = NoRet
         /\ UNCHANGED <<reveal, visible, pending, release_timer, nextId>>

-----------------------------------------------------------------------------
(* Spec: the reveal queue under every operation of its public surface *)

Room(k) == nextId + k <= MaxEntries

ClearStep == Clear /\ UNCHANGED <<presses, snaps, boxvars, partvars>>
SetTextStep ==
    /\ Room(1)
    /\ \E x \in Lines : SetText(x)
    /\ UNCHANGED <<presses, snaps, boxvars, partvars>>
QueueLinesStep ==
    /\ \E b \in Blocks, w \in BOOLEAN : Room(Len(SplitLines(b))) /\ QueueLines(b, w)
    /\ UNCHANGED <<presses, snaps, boxvars, partvars>>
AppendLineStep ==
    /\ Room(1)
    /\ \E x \in Lines, a \in BOOLEAN, w \in BOOLEAN : AppendLine(x, a, w)
    /\ UNCHANGED <<presses, snaps, boxvars, partvars>>
AppendVisibleLinesStep ==
    /\ \E ls \in LineLists, a \in BOOLEAN : Room(Len(ls)) /\ AppendVisibleLines(ls, a)
    /\ UNCHANGED <<presses, snaps, boxvars, partvars>>
AppendPlayerChoiceStep ==
    /\ Room(1)
    /\ \E x \in Lines : AppendPlayerChoice(x, FALSE)
    /\ UNCHANGED <<presses, snaps, boxvars, partvars>>
TrimStep ==
    /\ \E n \in -1..MaxTrim : TrimOldestEntries(n)
    /\ UNCHANGED <<presses, snaps, boxvars, partvars>>
UpdateStep ==
    /\ \E dt \in DtSet : Update(dt)
    /\ UNCHANGED <<presses, snaps, boxvars, partvars>>
PressStep == OnPlayerPress /\ UNCHANGED <<presses, snaps, boxvars, partvars>>
AdvanceStep == AdvanceLineNow /\ UNCHANGED <<presses, snaps, boxvars, partvars>>

Next ==
    \/ ClearStep
    \/ SetTextStep
    \/ QueueLinesStep
    \/ AppendLineStep
    \/ AppendVisibleLinesStep
    \/ AppendPlayerChoiceStep
    \/ TrimStep
    \/ UpdateStep
    \/ PressStep
    \/ AdvanceStep

Spec == Init /\ [][Next]_vars

-----------------------------------------------------------------------------
(* SpecPress: a block queued with wait_for_input=True on an empty model,    *)
(* then frames and player presses only, with the presses counted            *)

ScnQueue ==
    /\ nextId = 0
    /\ \E b \in ScnBlocks : QueueLines(b, TRUE)
    /\ UNCHANGED <<presses, snaps, boxvars, partvars>>

ScnUpdate ==
    /\ \E dt \in DtSet : Update(dt)
    /\ UNCHANGED <<presses, snaps, boxvars, partvars>>

\* presses are counted from the moment the block is queued
ScnPress ==
    /\ nextId > 0
    /\ presses < MaxPresses
    /\ OnPlayerPress
    /\ presses' = presses + 1
    /\ snaps' = IF LastAnimating(visible) THEN snaps + 1 ELSE snaps
    /\ UNCHANGED <<boxvars, partvars>>

NextPress == ScnQueue \/ ScnUpdate \/ ScnPress

SpecPress == Init /\ [][NextPress]_vars

-----------------------------------------------------------------------------
(* Vocabulary of the properties *)

Ids(seq) == [i \in 1..Len(seq) |-> seq[i].id]
Texts(seq) == [i \in 1..Len(seq) |-> seq[i].text]
IdSet(seq) == {seq[i].id : i \in 1..Len(seq)}

\* seq with the t of every entry blanked: the entries and their order
Membership(seq) == [i \in 1..Len(seq) |-> [seq[i] EXCEPT !.t = 0]]

\* a step of TextModel.update, for some frame time
IsUpdate == \E dt \in DtSet : Update(dt)

\* pending lost its head, and that entry is now the last visible one
HeadReleased ==
    /\ pending # <<>>
    /\ pending' = Tail(pending)
    /\ Membership(visible') =
           Append(Membership(visible), [Head(pending) EXCEPT !.visible = TRUE, !.t = 0])

\* no entry moved: the queue is as it was and the visible list holds the same entries
NothingReleased ==
    /\ pending' = pending
    /\ Membership(visible') = Membership(visible)

-----------------------------------------------------------------------------
(* Properties of the reveal queue *)

ReleasingPresses == presses - snaps

\* C2: N lines queued with wait_for_input=True need exactly N presses. Counting
\* the presses made while no animation is in flight, the number of visible
\* entries is that count (at most N): each such press moves exactly the pending
\* head to the visible list, a press made during an animation moves nothing, and
\* no update releases a line.
C2_OnePressOneLine ==
    /\ [](/\ Len(visible) + Len(pending) = nextId
          /\ Len(visible) = Min(ReleasingPresses, nextId))
    /\ [][IsUpdate => NothingReleased]_vars
    /\ [][OnPlayerPress /\ ~LastAnimating(visible) /\ pending # <<>> => HeadReleased]_vars
    /\ [][OnPlayerPress /\ LastAnimating(visible) => NothingReleased]_vars

\* C2 witness: three queued lines, all revealed by exactly three releasing presses
C2_Witness ==
    /\ nextId = 3
    /\ pending = <<>>
    /\ Len(visible) = 3
    /\ ReleasingPresses = 3

\* the two-line block Hello/World is what the model holds
HelloWorldQueued == Texts(visible \o pending) = <<Hello, World>>

AllSettled == \A i \in 1..Len(visible) : Settled(visible[i])

\* C3 as stated: after 1 press exactly 1 visible entry, Hello, settled; after a
\* 2nd press 2 visible entries, both settled, and nothing pending
C3_AsStated ==
    HelloWorldQueued =>
        /\ presses = 0 => Len(visible) = 0 /\ Len(pending) = 2
        /\ presses = 1 => /\ Len(visible) = 1
                          /\ visible[1].text = Hello
                          /\ visible[1].t = visible[1].duration
        /\ presses = 2 => Len(visible) = 2 /\ AllSettled /\ pending = <<>>

\* C3 amended: before any press 0 visible and 2 pending. The 1st press makes
\* exactly Hello visible, at t = 0 and not settled; while one releasing press
\* has been made there is 1 visible entry, Hello, and World is pending. A press
\* made while Hello animates only settles it. After the 2nd releasing press
\* there are 2 visible entries, Hello (settled) and World, and nothing pending.
C3_HelloWorldByReleasingPresses ==
    HelloWorldQueued =>
        /\ presses = 0 => Len(visible) = 0 /\ Len(pending) = 2
        /\ ReleasingPresses = 0 => Len(visible) = 0 /\ Len(pending) = 2
        /\ ReleasingPresses = 1 =>
              /\ Texts(visible) = <<Hello>>
              /\ Texts(pending) = <<World>>
              /\ presses = 1 /\ ret.changed =>
                    visible[1].t = 0 /\ visible[1].t < visible[1].duration
        /\ ReleasingPresses >= 2 =>
              /\ Texts(visible) = <<Hello, World>>
              /\ Settled(visible[1])
              /\ pending = <<>>

\* C3 witness: Hello/World, two presses, both entries settled, nothing pending
C3_Witness ==
    /\ HelloWorldQueued
    /\ presses = 2
    /\ snaps = 0
    /\ Len(visible) = 2
    /\ AllSettled
    /\ pending = <<>>

\* a step of one of the three calls that release: update, on_player_press, advance_line_now
IsReleaser == IsUpdate \/ OnPlayerPress \/ AdvanceLineNow

\* a step of clear or set_text, which empty the model
IsFullClear == Clear \/ \E x \in Lines : SetText(x)

\* C4: the pending queue is first in, first out. A step that lengthens the
\* queue appends at its back; every other step that changes it is a release by
\* update, on_player_press or advance_line_now, which takes the oldest pending
\* entry and appends it to the end of the visible list, or a full clear. The
\* queue holds its entries in creation order, and entries that waited for input
\* (all of which went through the queue) stand in the visible list in the order
\* they were enqueued, ahead of those still pending.
C4_PendingIsFifo ==
    /\ [][pending' # pending =>
            IF Len(pending') > Len(pending)
            THEN SubSeq(pending', 1, Len(pending)) = pending
            ELSE (HeadReleased /\ IsReleaser) \/ IsFullClear]_vars
    /\ [](\A i, j \in 1..Len(pending) : i < j => pending[i].id < pending[j].id)
    /\ [](\A i, j \in 1..Len(visible) :
             i < j /\ visible[i].wait_for_input /\ visible[j].wait_for_input
                 => visible[i].id < visible[j].id)
    /\ [](\A i \in 1..Len(visible), j \in 1..Len(pending) :
             visible[i].wait_for_input /\ pending[j].wait_for_input
                 => visible[i].id < pending[j].id)

\* C4 witness: two entries that waited in the queue have been released by
\* presses, in their order, and a third is still pending
C4_Witness ==
    /\ ret.changed
    /\ Len(visible) = 2
    /\ visible[1].wait_for_input /\ visible[2].wait_for_input
    /\ visible[1].id < visible[2].id
    /\ pending # <<>>

\* what update does when it releases, and when it does not
UpdateReleases == HeadReleased /\ release_timer' = 0 /\ ret'.released
UpdateHolds == NothingReleased /\ ~ret'.released

\* C5 as stated: update releases exactly when the head does not wait for
\* input, the last visible entry has finished animating (t >= duration) and the
\* timer has reached per_line_delay
C5_AsStated ==
    [][\A dt \in DtSet : Update(dt) =>
          LET due == /\ pending # <<>>
                     /\ ~Head(pending).wait_for_input
                     /\ visible = <<>> \/ Settled(visible[Len(visible)])
                     /\ release_timer + dt >= reveal.per_line_delay
          IN  IF due THEN UpdateReleases ELSE UpdateHolds
      ]_vars

\* C5 amended: update(dt) releases a pending entry exactly when the pending head
\* has wait_for_input=false, the last visible entry (if any) has finished
\* animating or is within 1e-4 s of its duration, and the release timer
\* accumulated over such ticks has reached per_line_delay. It then releases
\* exactly the head, resets the timer to 0 and reports released=true; in every
\* other case the pending queue and the visible list membership are unchanged,
\* released=false, and the timer has grown by dt if the first two conditions
\* held and is unchanged if not.
C5_UpdateReleaseRule ==
    [][\A dt \in DtSet : Update(dt) =>
          LET runs == /\ pending # <<>>
                      /\ ~Head(pending).wait_for_input
                      /\ \/ visible = <<>>
                         \/ visible[Len(visible)].t >= visible[Len(visible)].duration - Eps
              due == runs /\ release_timer + dt >= reveal.per_line_delay
          IN  IF due
              THEN UpdateReleases
              ELSE /\ UpdateHolds
                   /\ release_timer' = IF runs THEN release_timer + dt ELSE release_timer
      ]_vars

\* C5 witness: an update has just released an entry behind an earlier visible one
C5_Witness ==
    /\ ret.released
    /\ release_timer = 0
    /\ Len(visible) >= 2

\* C6 as stated: while the last visible entry has wait_for_input=true no update
\* releases the next pending entry
C6_AsStated ==
    [][IsUpdate /\ visible # <<>> /\ visible[Len(visible)].wait_for_input
          => NothingReleased]_vars

\* C6 amended: while the pending head has wait_for_input=true, update(dt) never
\* auto-releases it, whatever dt and however many ticks pass; it becomes visible
\* only through on_player_press or advance_line_now.
C6_WaitingHeadNeedsPress ==
    [][pending # <<>> /\ Head(pending).wait_for_input =>
          /\ IsUpdate => NothingReleased /\ ~ret'.released
          /\ Head(pending).id \in IdSet(visible') => OnPlayerPress \/ AdvanceLineNow
      ]_vars

\* C6 witness: an update has just ticked over an animating entry while the
\* pending head waits for input
C6_Witness ==
    /\ ret.animating
    /\ pending # <<>>
    /\ Head(pending).wait_for_input
    /\ visible # <<>>
    /\ visible[Len(visible)].wait_for_input

\* C7: no entry reverts. Over every step, an entry of the visible list is not in
\* the pending queue afterwards, no entry's t decreases, and a settled entry
\* that is still held is still settled.
C7_NoRevert ==
    [][/\ IdSet(visible) \cap IdSet(pending') = {}
       /\ \A i \in 1..Len(visible), k \in 1..Len(visible') :
             visible'[k].id = visible[i].id =>
                 /\ visible'[k].t >= visible[i].t
                 /\ Settled(visible[i]) => Settled(visible'[k])
       /\ \A i \in 1..Len(pending), k \in 1..Len(visible') :
             visible'[k].id = pending[i].id => visible'[k].t >= pending[i].t
       /\ \A i \in 1..Len(pending), k \in 1..Len(pending') :
             pending'[k].id = pending[i].id => pending'[k].t >= pending[i].t
      ]_vars

\* C7 witness: an entry that waited in the queue is visible and has settled
\* after an animation of positive length
C7_Witness ==
    \E i \in 1..Len(visible) :
        /\ visible[i].wait_for_input
        /\ visible[i].duration > 0
        /\ Settled(visible[i])

\* C8: every entry held is in exactly one of the pending queue and the visible
\* list, once; pending entries have visible=false and t=0, entries of the
\* visible list have visible=true.
C8_ExactlyOnePlace ==
    /\ IdSet(visible) \cap IdSet(pending) = {}
    /\ Cardinality(IdSet(visible)) = Len(visible)
    /\ Cardinality(IdSet(pending)) = Len(pending)
    /\ \A i \in 1..Len(pending) : ~pending[i].visible /\ pending[i].t = 0
    /\ \A i \in 1..Len(visible) : visible[i].visible

\* C8 witness: entries in both containers, one of them released from the queue
C8_Witness ==
    /\ pending # <<>>
    /\ visible # <<>>
    /\ visible[Len(visible)].wait_for_input
    /\ Len(visible) + Len(pending) = 3

TInRange ==
    /\ \A i \in 1..Len(visible) : 0 <= visible[i].t /\ visible[i].t <= visible[i].duration
    /\ \A i \in 1..Len(pending) : 0 <= pending[i].t /\ pending[i].t <= pending[i].duration

\* C9: 0 <= t <= duration for every entry, always. update(dt) moves the t of
\* each visible entry that has t < duration (the entry it has just released
\* included) to min(duration, t + dt), leaves every other t alone, never
\* advances a pending entry, and reports animating=true exactly when at least
\* one entry was advanced so in that tick.
C9_ElapsedClamped ==
    /\ []TInRange
    /\ [][\A dt \in DtSet : Update(dt) =>
            LET before(k) == IF k <= Len(visible) THEN visible[k] ELSE Head(pending)
            IN  /\ \A k \in 1..Len(visible') :
                      visible'[k].t = IF before(k).t < before(k).duration
                                      THEN Min(before(k).duration, before(k).t + dt)
                                      ELSE before(k).t
                /\ \A k \in 1..Len(pending') : pending'[k].t = 0
                /\ ret'.animating <=>
                      \E k \in 1..Len(visible') : before(k).t < before(k).duration
        ]_vars

\* C9 witness: an update has just advanced entries, one now at its duration and
\* one still on its way
C9_Witness ==
    /\ ret.animating
    /\ \E i \in 1..Len(visible) :
          visible[i].duration > 0 /\ visible[i].t = visible[i].duration
    /\ \E i \in 1..Len(visible) :
          0 < visible[i].t /\ visible[i].t < visible[i].duration

\* C10: trim_oldest_entries(n) removes exactly min(max(n, 0), len(visible))
\* entries, all from the front of the visible list, keeps the others in their
\* order, leaves the pending queue and the release timer as they were, and
\* returns the number removed.
C10_TrimFront ==
    [][\A n \in -1..MaxTrim : TrimOldestEntries(n) =>
          LET k == Min(Max(n, 0), Len(visible))
          IN  /\ Len(visible') = Len(visible) - k
              /\ \A i \in 1..Len(visible') : visible'[i] = visible[i + k]
              /\ pending' = pending
              /\ release_timer' = release_timer
              /\ ret'.removed = k
      ]_vars

\* C10 witness: a trim has just removed both visible entries while an entry is
\* pending and the release timer is running
C10_Witness ==
    /\ ret.removed = 2
    /\ visible = <<>>
    /\ pending # <<>>
    /\ release_timer > 0

-----------------------------------------------------------------------------
(* Part 2: operations of TextBox *)

\* Bounds of the text box scenarios
\* Entries created over a run of the text box.
MaxBoxEntries == 2
\* Content and viewport heights given to the scroll model alone: multiples of 60 px.
MaxHeightSteps == 3

\* the reveal queue is left alone, the call returns nothing
ModelIdle == ret' = NoRet /\ UNCHANGED <<reveal, visible, pending, release_timer, nextId>>

\* set_text
BoxSetText(text) ==
    /\ SetText(text)
    /\ scroller' = ToTop(scroller)
    /\ UNCHANGED <<choices, rect_h, follow_bottom, theme>>

\* queue_lines
BoxQueueLines(block, wait) ==
    /\ QueueLines(block, wait)
    /\ UNCHANGED <<scroller, choices, rect_h, follow_bottom, theme>>

\* append_line: only a line shown at once asks _near_bottom, which syncs
BoxAppendLine(line, animated, wait) ==
    /\ AppendLine(line, animated, wait)
    /\ scroller' =
         IF ~(animated \/ wait)
         THEN LET s1 == SyncScrollMetrics(scroller, theme, rect_h, visible', choices)
              IN  IF NearBottom(s1) THEN ToBottom(s1) ELSE s1
         ELSE scroller
    /\ UNCHANGED <<choices, rect_h, follow_bottom, theme>>

\* clear
BoxClear ==
    /\ Clear
    /\ scroller' = ToTop(scroller)
    /\ UNCHANGED <<choices, rect_h, follow_bottom, theme>>

\* on_resize: the offset keeps its share of the scrollable range, taken in
\* whole pixels
OnResize(new_h) ==
    LET s0 == SyncScrollMetrics(scroller, theme, rect_h, visible, choices)
        was_bottom == NearBottom(s0)
        s1 == SyncScrollMetrics(s0, theme, new_h, visible, choices)
    IN  /\ rect_h' = new_h
        /\ scroller' = IF was_bottom THEN ToBottom(s1)
                       ELSE [s1 EXCEPT !.offset =
                                (ScrollMax(s1) * s0.offset) \div ScrollMax(s0)]
        /\ ModelIdle
        /\ UNCHANGED <<choices, follow_bottom, theme>>

BoxUpdateNoAnchor(dt) ==
    /\ Update(dt)
    /\ scroller' = SyncScrollMetrics(scroller, theme, rect_h, visible', choices)
    /\ choices' = IF Active(choices) THEN Tick(choices, dt) ELSE choices
    /\ UNCHANGED <<rect_h, follow_bottom, theme>>

\* update
BoxUpdate(dt) ==
    /\ Update(dt)
    /\ LET s1 == SyncScrollMetrics(scroller, theme, rect_h, visible', choices)
           s2 == IF (ret'.released \/ ret'.animating)
                    /\ (follow_bottom \/ NearBottom(s1))
                 THEN ToBottom(s1) ELSE s1
           c1 == Tick(choices, dt)
       IN  IF Active(choices)
           THEN /\ choices' = c1
                /\ scroller' = IF (choices.anchor_bottom \/ follow_bottom)
                                  /\ c1.anim_t > choices.anim_t
                               THEN ToBottom(s2) ELSE s2
           ELSE /\ choices' = choices
                /\ scroller' = s2
    /\ UNCHANGED <<rect_h, follow_bottom, theme>>

\* `changed and (follow or near)`: with follow set, _near_bottom is not
\* evaluated and nothing syncs the metrics before to_bottom
AnchorAfterChange(changed, vis1) ==
    IF ~changed THEN scroller
    ELSE IF follow_bottom THEN ToBottom(scroller)
    ELSE LET s1 == SyncScrollMetrics(scroller, theme, rect_h, vis1, choices)
         IN  IF NearBottom(s1) THEN ToBottom(s1) ELSE s1

\* on_player_press
BoxPress ==
    /\ OnPlayerPress
    /\ scroller' = AnchorAfterChange(ret'.changed, visible')
    /\ UNCHANGED <<choices, rect_h, follow_bottom, theme>>

\* advance_line_now
BoxAdvance ==
    /\ AdvanceLineNow
    /\ scroller' = AnchorAfterChange(ret'.changed, visible')
    /\ UNCHANGED <<choices, rect_h, follow_bottom, theme>>

\* show_choice_box
ShowChoiceBox(lines) ==
    LET s1 == SyncScrollMetrics(scroller, theme, rect_h, visible, choices)
        was_bottom == NearBottom(s1)
    IN  /\ choices' = Show(lines, was_bottom)
        /\ scroller' = IF was_bottom THEN ToBottom(s1) ELSE s1
        /\ ModelIdle
        /\ UNCHANGED <<rect_h, follow_bottom, theme>>

\* hide_choice_box
HideChoiceBox ==
    /\ choices' = HideOf(choices)
    /\ ModelIdle
    /\ UNCHANGED <<scroller, rect_h, follow_bottom, theme>>

\* choice_move_cursor
ChoiceMoveCursor(delta) ==
    /\ ModelIdle
    /\ UNCHANGED <<scroller, rect_h, follow_bottom, theme>>
    /\ choices' = Move(choices, delta)

\* the y_top that choice_hover_at and choice_click hand to ChoiceBox.hit_test
HitYTop == ChoiceYFlow(theme, scroller, visible) - SlideOffset(HitSlidePx, choices.anim_t)

\* choice_hover_at, pointer at widget-local y = wy
ChoiceHoverAt(wy) ==
    /\ ModelIdle
    /\ UNCHANGED <<scroller, rect_h, follow_bottom, theme>>
    /\ choices' = IF ~Active(choices) THEN choices
                  ELSE SetHoverIndex(choices,
                         HitTest(theme, choices.lines, HitYTop, wy, FALSE, FALSE))

\* choice_click, pointer at widget-local y = wy, over the row's text or not
ChoiceClick(wy, on_text) ==
    LET idx == IF ~Active(choices) THEN None
               ELSE HitTest(theme, choices.lines, HitYTop, wy, on_text, TRUE)
    IN  /\ ModelIdle
        /\ UNCHANGED <<scroller, rect_h, follow_bottom, theme>>
        /\ choices' = IF idx = None THEN choices ELSE SetHoverIndex(choices, idx)

ScrollKeepFollow(dy) ==
    /\ dy # 0
    /\ scroller' = ScrollBy(scroller, dy)
    /\ follow_bottom' = (follow_bottom \/ IsAtBottom(ScrollBy(scroller, dy)))
    /\ ModelIdle
    /\ UNCHANGED <<choices, rect_h, theme>>

\* scroll; scroll(0) returns at once
Scroll(dy) ==
    /\ dy # 0
    /\ LET prev_bottom == IsAtBottom(scroller)
           s1 == ScrollBy(scroller, dy)
       IN  /\ scroller' = s1
           /\ follow_bottom' = IF IsAtBottom(s1) THEN TRUE
                               ELSE IF ~prev_bottom THEN FALSE
                               ELSE follow_bottom
    /\ ModelIdle
    /\ UNCHANGED <<choices, rect_h, theme>>

\* scroll_to_top
ScrollToTop ==
    /\ scroller' = ToTop(scroller)
    /\ follow_bottom' = FALSE
    /\ ModelIdle
    /\ UNCHANGED <<choices, rect_h, theme>>

\* scroll_to_bottom
ScrollToBottom ==
    /\ scroller' = ToBottom(SyncScrollMetrics(scroller, theme, rect_h, visible, choices))
    /\ follow_bottom' = TRUE
    /\ ModelIdle
    /\ UNCHANGED <<choices, rect_h, theme>>

\* set_follow_bottom
SetFollowBottom(on) ==
    /\ follow_bottom' = on
    /\ ModelIdle
    /\ UNCHANGED <<scroller, choices, rect_h, theme>>

-----------------------------------------------------------------------------
(* SpecScroll: the ScrollModel alone, under its own operations and under    *)
(* changes of its two heights, each followed by clamp as in                 *)
(* _sync_scroll_metrics                                                     *)

Heights == {60 * k : k \in 0..MaxHeightSteps}
ScrollDeltas == {-45, 25}

ScrollerRest ==
    UNCHANGED <<modelvars, presses, snaps, choices, rect_h, follow_bottom, theme, partvars>>

ScrollerScroll ==
    /\ \E dy \in ScrollDeltas : scroller' = ScrollBy(scroller, dy)
    /\ shrunk' = FALSE
    /\ ScrollerRest

ScrollerToTop ==
    /\ scroller' = ToTop(scroller)
    /\ shrunk' = FALSE
    /\ ScrollerRest

ScrollerToBottom ==
    /\ scroller' = ToBottom(scroller)
    /\ shrunk' = FALSE
    /\ ScrollerRest

ScrollerSetMetrics ==
    /\ \E ch \in Heights, vh \in Heights :
          /\ scroller' = Clamp([scroller EXCEPT !.content_h = ch, !.viewport_h = vh])
          /\ shrunk' = (Max(0, ch - vh) < scroller.offset)
    /\ ScrollerRest

NextScroll == ScrollerScroll \/ ScrollerToTop \/ ScrollerToBottom \/ ScrollerSetMetrics

SpecScroll == Init /\ [][NextScroll]_vars

-----------------------------------------------------------------------------
(* SpecBox: the text box under the calls of the presenter, the event loop   *)
(* and the frame clock. Lines are queued (released by the timer or by a     *)
(* press) or appended as shown at once; the box is 448 or 120 px high,      *)
(* a viewport of 400 or 72 px.                                              *)

BoxLines == {HelloWorld}
BoxBlocks == {HelloWorld}
BoxDts == {IntroDuration \div 2}
RectHeights == {DefaultRectH, 120}
LabelLists == {<<Hello, World>>}
BoxScrollDeltas == {-20, 20}

\* TextBox(rect, theme, reveal)
InitBox ==
    /\ reveal = DefaultReveal
    /\ visible = <<>>
    /\ pending = <<>>
    /\ release_timer = 0
    /\ nextId = 0
    /\ ret = NoRet
    /\ presses = 0
    /\ snaps = 0
    /\ rect_h \in RectHeights
    /\ theme = DefaultTheme
    /\ scroller = ScrollModel(0, ViewportHeight(theme, rect_h), 0)
    /\ choices = NoChoices
    /\ follow_bottom = TRUE
    /\ shrunk = FALSE
    /\ PartsIdle

BoxRoom(k) == nextId + k <= MaxBoxEntries

BoxRest == UNCHANGED <<presses, snaps, shrunk, partvars>>

BoxQueueLinesStep ==
    /\ \E b \in BoxBlocks, w \in BOOLEAN :
          BoxRoom(Len(SplitLines(b))) /\ BoxQueueLines(b, w)
    /\ BoxRest
BoxAppendLineStep ==
    /\ BoxRoom(1)
    /\ \E x \in BoxLines : BoxAppendLine(x, FALSE, FALSE)
    /\ BoxRest
BoxClearStep == BoxClear /\ BoxRest
OnResizeStep == (\E h \in RectHeights : OnResize(h)) /\ BoxRest
BoxUpdateStep == (\E dt \in BoxDts : BoxUpdate(dt)) /\ BoxRest
BoxPressStep == BoxPress /\ BoxRest
ShowChoiceBoxStep == (\E ls \in LabelLists : ShowChoiceBox(ls)) /\ BoxRest
HideChoiceBoxStep == HideChoiceBox /\ BoxRest
ScrollStep == (\E dy \in BoxScrollDeltas : Scroll(dy)) /\ BoxRest
ScrollToTopStep == ScrollToTop /\ BoxRest
ScrollToBottomStep == ScrollToBottom /\ BoxRest
SetFollowBottomStep == (\E on \in BOOLEAN : SetFollowBottom(on)) /\ BoxRest

NextBox ==
    \/ BoxQueueLinesStep
    \/ BoxAppendLineStep
    \/ BoxClearStep
    \/ OnResizeStep
    \/ BoxUpdateStep
    \/ BoxPressStep
    \/ ShowChoiceBoxStep
    \/ HideChoiceBoxStep
    \/ ScrollStep
    \/ ScrollToTopStep
    \/ ScrollToBottomStep
    \/ SetFollowBottomStep

SpecBox == InitBox /\ [][NextBox]_vars

-----------------------------------------------------------------------------
(* Vocabulary of the text box properties *)

\* the visual content height and the scroll range of the content as it is
VisualHeightNow == VisualContentHeight(theme, visible, choices)
ViewportNow == ViewportHeight(theme, rect_h)
MaxOffsetNow == Max(0, VisualHeightNow - ViewportNow)

\* the stored scroll range
MaxOffsetStored == ScrollMax(scroller)

IsBoxUpdate == \E dt \in BoxDts : BoxUpdate(dt)

-----------------------------------------------------------------------------
(* C11 *)

\* C11: whatever sequence of scroll, to_top, to_bottom and changes of the
\* two heights followed by clamp was made, the stored offset lies within
\* [0, max(0, content_h - viewport_h)], also right after the content height
\* shrank below the offset.
C11_OffsetWithinRange ==
    /\ 0 <= scroller.offset
    /\ scroller.offset <= Max(0, scroller.content_h - scroller.viewport_h)

\* the heights changed so that the range fell below the offset, and clamp cut
\* the offset to the new, non-zero maximum
C11_Witness ==
    /\ shrunk
    /\ scroller.offset > 0
    /\ scroller.offset = scroller.content_h - scroller.viewport_h

-----------------------------------------------------------------------------
(* C12 *)

\* on_player_press that released an entry
PressReleases == BoxPress /\ Len(visible') > Len(visible)

\* the operations C12 lists
HeightChangers ==
    \/ PressReleases
    \/ HideChoiceBox
    \/ \E ls \in LabelLists : ShowChoiceBox(ls)
    \/ BoxClear
    \/ \E x \in BoxLines : BoxAppendLine(x, FALSE, FALSE)
    \/ \E h \in RectHeights : OnResize(h)

\* C12: when a listed operation (release by press, hide_choice_box,
\* show_choice_box, clear, append_line, on_resize) has changed the visual
\* content height or the viewport height, the offset it leaves is at most
\* max(0, visual content height - viewport height) of the content as it then is.
C12_ReclampedAfterHeightChange ==
    [][ HeightChangers
        /\ (VisualHeightNow' # VisualHeightNow \/ ViewportNow' # ViewportNow)
        => scroller'.offset <= MaxOffsetNow' ]_vars

-----------------------------------------------------------------------------
(* C13 *)

\* C13: a scroll call that finds the view at the bottom and leaves it away
\* from the bottom leaves the follow-bottom flag false.
C13_ScrollUpStopsFollowing ==
    [][ \A dy \in BoxScrollDeltas :
          Scroll(dy) /\ IsAtBottom(scroller) /\ ~IsAtBottom(scroller')
          => ~follow_bottom' ]_vars

-----------------------------------------------------------------------------
(* C14 *)

\* the operations C14 lists
BottomReachers ==
    \/ \E dy \in BoxScrollDeltas : Scroll(dy)
    \/ ScrollToBottom
    \/ IsBoxUpdate
    \/ BoxPress
    \/ \E ls \in LabelLists : ShowChoiceBox(ls)

\* C14: an operation that brings the view to offset = max_offset with
\* max_offset > 0 leaves follow-bottom true; scroll_to_bottom and
\* set_follow_bottom(true) always leave it true.
C14_FollowAgainAtBottom ==
    [][ /\ ( BottomReachers
             /\ scroller'.offset # scroller.offset
             /\ MaxOffsetStored' > 0
             /\ scroller'.offset = MaxOffsetStored'
             => follow_bottom' )
        /\ (ScrollToBottom \/ SetFollowBottom(TRUE) => follow_bottom') ]_vars

-----------------------------------------------------------------------------
(* C15 *)

\* what update(dt) reported and did in this step
QueueMoved == ret'.released \/ ret'.animating
OverlayAdvanced == Active(choices) /\ choices'.anim_t > choices.anim_t

\* the view is within the threshold of the bottom of the content as update
\* recomputes it
NearAfterSync ==
    NearBottom(SyncScrollMetrics(scroller, theme, rect_h, visible', choices))

AtBottomAfter ==
    /\ scroller'.offset = MaxOffsetStored'
    /\ scroller'.content_h = VisualHeightNow'
    /\ scroller'.viewport_h = ViewportNow'

\* C15 as stated: after an update(dt) in which the reveal queue reported
\* released or animating, or the overlay's animation advanced, with
\* follow-bottom set or the view near the bottom, the offset is max_offset()
\* of the content height recomputed in that tick.
C15_AsStated ==
    [][ IsBoxUpdate /\ (QueueMoved \/ OverlayAdvanced)
        /\ (follow_bottom \/ NearAfterSync)
        => AtBottomAfter ]_vars

\* C15, amended: after an update(dt) in which the reveal queue reported
\* released or animating with follow-bottom set or the view near the bottom,
\* or in which the overlay's animation advanced with follow-bottom or the
\* overlay's anchor_to_bottom set, the offset is max_offset() of the content
\* height recomputed in that tick.
C15_AnchoringRule ==
    [][ IsBoxUpdate
        /\ ( (QueueMoved /\ (follow_bottom \/ NearAfterSync))
             \/ (OverlayAdvanced /\ (follow_bottom \/ choices.anchor_bottom)) )
        => AtBottomAfter ]_vars

\* a released line grew the content beyond the viewport, and the tick that
\* reported it left the view at the new bottom
C15_Witness ==
    /\ ret.released
    /\ scroller.offset > 0
    /\ scroller.offset = MaxOffsetNow

-----------------------------------------------------------------------------
(* C16 *)

\* C16: after on_player_press in which the reveal queue reported a change,
\* with follow-bottom set or the view near the bottom, the offset is
\* max_offset() of the content as it is after the press.
C16_PressScrollsToBottom ==
    [][ BoxPress /\ ret'.changed /\ (follow_bottom \/ NearAfterSync)
        => scroller'.offset = MaxOffsetNow' ]_vars

-----------------------------------------------------------------------------
(* C17 *)

\* C17: every tick that advances the animation of an overlay shown with
\* anchor_to_bottom leaves the offset at max_offset() of the content as that
\* tick recomputed it; so it is with viewport 400 and content 120 once the
\* ticks have completed the intro duration.
C17_OverlayAnchored ==
    [][ IsBoxUpdate /\ OverlayAdvanced /\ choices.anchor_bottom
        => AtBottomAfter ]_vars

\* viewport 400, content 120, choices shown with anchor_to_bottom, the
\* intro completed by the last tick
C17_Witness ==
    /\ ViewportNow = 400
    /\ ContentHeight(theme, visible) = 120
    /\ Active(choices)
    /\ choices.anchor_bottom
    /\ choices.anim_t = AnimDur
    /\ scroller.offset = MaxOffsetStored
    /\ scroller.content_h = VisualHeightNow

-----------------------------------------------------------------------------
(* SpecOverlay: the choice overlay of the text box under the presenter's    *)
(* show / hide, the keyboard cursor, the pointer and the frame clock, over  *)
(* a transcript of a few lines, for a theme with the default slide distance *)
(* and one with choice.slide_px set                                         *)

\* Labels of the largest choice list shown.
MaxLabels == 3

LabelAt(i) == IF i % 2 = 1 THEN Hello ELSE World
LabelListOf(k) == [i \in 1..k |-> LabelAt(i)]
OverlayLabelLists == {LabelListOf(k) : k \in 0..MaxLabels}
MoveDeltas == (0 - (MaxLabels + 2))..(MaxLabels + 2)
\* widget-local pointer heights, from above the panel to below its last row
PointerYs == {36 + 24 * k : k \in 0..(2 * MaxLabels + 4)}
OverlayDts == {IntroDuration \div 2}

InitOverlay ==
    /\ reveal = DefaultReveal
    /\ visible = <<>>
    /\ pending = <<>>
    /\ release_timer = 0
    /\ nextId = 0
    /\ ret = NoRet
    /\ presses = 0
    /\ snaps = 0
    /\ rect_h = DefaultRectH
    /\ theme \in Themes
    /\ scroller = ScrollModel(0, ViewportHeight(theme, rect_h), 0)
    /\ choices = NoChoices
    /\ follow_bottom = TRUE
    /\ shrunk = FALSE
    /\ PartsIdle

OverlayAppendLine ==
    /\ BoxRoom(1)
    /\ \E x \in BoxLines : BoxAppendLine(x, FALSE, FALSE)
    /\ BoxRest
OverlayShow == (\E ls \in OverlayLabelLists : ShowChoiceBox(ls)) /\ BoxRest
OverlayHide == HideChoiceBox /\ BoxRest
OverlayUpdate == (\E dt \in OverlayDts : BoxUpdate(dt)) /\ BoxRest
OverlayMove == (\E d \in MoveDeltas : ChoiceMoveCursor(d)) /\ BoxRest
OverlayHover == (\E wy \in PointerYs : ChoiceHoverAt(wy)) /\ BoxRest
OverlayClick ==
    /\ \E wy \in PointerYs, on_text \in BOOLEAN : ChoiceClick(wy, on_text)
    /\ BoxRest

NextOverlay ==
    \/ OverlayAppendLine
    \/ OverlayShow
    \/ OverlayHide
    \/ OverlayUpdate
    \/ OverlayMove
    \/ OverlayHover
    \/ OverlayClick

SpecOverlay == InitOverlay /\ [][NextOverlay]_vars

-----------------------------------------------------------------------------
(* C18 *)

\* n calls of move(1)
RECURSIVE MoveTimes(_, _)
MoveTimes(c, n) == IF n = 0 THEN c ELSE MoveTimes(Move(c, 1), n - 1)

LabelCount == Len(choices.lines)

\* C18: move(delta) on K >= 1 labels leaves the selected index in [0, K-1],
\* congruent to selected + delta modulo K, for every delta, negative ones
\* included, and changes nothing else; on an empty label set it changes
\* nothing; K calls of move(1) from any index of [0, K-1] come back to it.
C18_MoveWrapsTrueModulo ==
    /\ [](LabelCount >= 1 /\ choices.sel \in 0..(LabelCount - 1)
          => MoveTimes(choices, LabelCount).sel = choices.sel)
    /\ [][ \A d \in MoveDeltas : ChoiceMoveCursor(d) =>
             IF LabelCount = 0 THEN choices' = choices
             ELSE /\ choices'.sel \in 0..(LabelCount - 1)
                  /\ \E q \in (0 - (MaxLabels + 3))..(MaxLabels + 3) :
                        choices'.sel = choices.sel + d - q * LabelCount
                  /\ choices' = [choices EXCEPT !.sel = choices'.sel] ]_vars

\* the cursor stands on the last of several labels, nothing hovered
C18_Witness ==
    /\ LabelCount >= 2
    /\ choices.sel = LabelCount - 1
    /\ choices.hover = -1

-----------------------------------------------------------------------------
(* C19 *)

\* what the pointer at widget-local height wy hits, row-wide
HoverHit(wy) == HitTest(theme, choices.lines, HitYTop, wy, FALSE, FALSE)

\* C19: set_hover_index(None) leaves hover = -1 and the selected index as it
\* was; set_hover_index(i) leaves hover = selected = i; in both cases nothing
\* else changes. show(labels, anchor) leaves selected = 0 for a non-empty
\* label list and -1 otherwise, hover = -1 and the animation clock at 0.
C19_HoverAndShowEffects ==
    [][ /\ \A wy \in PointerYs :
             ChoiceHoverAt(wy) /\ Active(choices) =>
               IF HoverHit(wy) = None
               THEN choices' = [choices EXCEPT !.hover = -1]
               ELSE choices' = [choices EXCEPT !.hover = HoverHit(wy)[1],
                                               !.sel = HoverHit(wy)[1]]
        /\ \A ls \in OverlayLabelLists :
             ShowChoiceBox(ls) =>
               /\ choices'.lines = ls
               /\ choices'.sel = (IF ls # <<>> THEN 0 ELSE -1)
               /\ choices'.hover = -1
               /\ choices'.anim_t = 0 ]_vars

\* the pointer is over a row below the first one: hover and selection are there
C19_Witness ==
    /\ Active(choices)
    /\ choices.hover >= 1
    /\ choices.sel = choices.hover

-----------------------------------------------------------------------------
(* C20 *)

\* TextBox.draw: the y_top handed to ChoiceBox.draw_flow, and where the panel
\* is then painted
DrawYTop == ChoiceYFlow(theme, scroller, visible)
DrawnPanelY == DrawPanelY(theme, DrawYTop, choices.anim_t)

\* ChoiceBox.hit_test: panel_y = y_top + inset
HitPanelY == HitYTop + theme.choice_inset_px

\* C20: at every animation progress and for every theme, the panel top used
\* for hit-testing is the panel top at which draw paints the panel, and a
\* point on the first pixel row of a drawn row hit-tests to that row's index.
C20_HitTestAgreesWithDraw ==
    Active(choices) =>
        /\ HitPanelY = DrawnPanelY
        /\ \A i \in 1..LabelCount :
              HitTest(theme, choices.lines, HitYTop,
                      DrawRowY(theme, choices.lines, DrawnPanelY, i), TRUE, FALSE)
              = Some(i - 1)

-----------------------------------------------------------------------------
(* C39 *)

\* what choice_click returns for the pointer at widget-local height wy
ClickReturn(wy, on_text) ==
    IF ~Active(choices) THEN None
    ELSE HitTest(theme, choices.lines, HitYTop, wy, on_text, TRUE)

\* C39: through any sequence of TextBox choice operations (show_choice_box,
\* hide_choice_box, choice_move_cursor, choice_hover_at, choice_click,
\* update), whenever the overlay is active with K labels the selected index
\* is in [0, K-1] and hover is -1 or in [0, K-1]; whenever it is inactive
\* selected = -1, hover = -1 and the animation clock is 0; a choice_click
\* that hits no row returns None and leaves the selected index unchanged.
C39_ChoiceStateInRange ==
    /\ [](IF Active(choices)
          THEN /\ choices.sel \in 0..(LabelCount - 1)
               /\ choices.hover \in {-1} \cup 0..(LabelCount - 1)
          ELSE /\ choices.sel = -1
               /\ choices.hover = -1
               /\ choices.anim_t = 0)
    /\ [][\A wy \in PointerYs, on_text \in BOOLEAN :
            (ChoiceClick(wy, on_text) /\ ClickReturn(wy, on_text) = None)
               => choices'.sel = choices.sel]_vars

\* three labels are up and settled, the pointer rests on the last row and
\* the keyboard cursor has wrapped round to the first
C39_Witness ==
    /\ LabelCount = 3
    /\ choices.hover = 2
    /\ choices.sel = 0
    /\ choices.anim_t = AnimDur

-----------------------------------------------------------------------------
(* Part 3: the typewriter timing on its own.                                *)
(* SpecTypewriter calls _compute_typewriter_timing once on a text over a    *)
(* letter, a full stop, a comma and a line break, under one of three pause  *)
(* configurations.                                                          *)

\* Longest text handed to _compute_typewriter_timing.
MaxTextLen == 5

TwAlphabet == {"a", ".", ",", "\n"}
TwTexts == UNION {[1..n -> TwAlphabet] : n \in 0..MaxTextLen}
\* the defaults, no pause at all, and no pause after a sentence end only
PauseConfigs == {DefaultPauses, Pauses(0, 0, 0), Pauses(PauseShort, 0, PauseEllipsis)}

\* a TextBox just built with the reveal parameters rp: its TextModel is empty
BoxBuiltWith(rp) ==
    /\ reveal = rp
    /\ visible = <<>>
    /\ pending = <<>>
    /\ release_timer = 0
    /\ nextId = 0
    /\ ret = NoRet
    /\ presses = 0
    /\ snaps = 0
    /\ rect_h = DefaultRectH
    /\ theme = DefaultTheme
    /\ scroller = ScrollModel(0, ViewportHeight(theme, rect_h), 0)
    /\ choices = NoChoices
    /\ follow_bottom = TRUE
    /\ shrunk = FALSE

BoxAtRest == BoxBuiltWith(DefaultReveal)

InitTypewriter ==
    /\ BoxAtRest
    /\ wr = NoWr
    /\ ViewIdle
    /\ PresenterIdle
    /\ InventoryIdle
    /\ HitIdle
    /\ \E text \in TwTexts, rp \in PauseConfigs : tw = [text |-> text, rp |-> rp, out |-> <<>>]

ComputeTypewriterTiming ==
    /\ tw.out = <<>>
    /\ tw' = [tw EXCEPT !.out = <<TypewriterTiming(tw.rp, tw.text)>>]
    /\ UNCHANGED <<modelvars, presses, snaps, boxvars, wr, viewvars, presvars, invvars, hit>>

NextTypewriter == ComputeTypewriterTiming

SpecTypewriter == InitTypewriter /\ [][NextTypewriter]_vars

-----------------------------------------------------------------------------
(* Vocabulary of the typewriter claims *)

TwReturned == tw.out # <<>>
TwTotal == tw.out[1].total
TwCm == tw.out[1].cm
\* the time of the k-th visible character: the step of the table at k
TwTime(k) == TwCm[k + 1] - TwCm[k]

VisibleChars(text) == Cardinality({i \in 1..Len(text) : text[i] # "\n"})
\* the visible characters among the first i characters of the text
VisibleBefore(text, i) == Cardinality({j \in 1..(i - 1) : text[j] # "\n"})

NonDecreasing(cm) == \A i \in 1..(Len(cm) - 1) : cm[i] <= cm[i + 1]
\* the last fraction is 1.0
EndsAtOne == TwTotal > 0 /\ TwCm[Len(TwCm)] = TwTotal

\* position of the last visible character, 0 if there is none
LastVisibleAt(text) ==
    IF VisibleChars(text) = 0 THEN 0
    ELSE CHOOSE i \in 1..Len(text) :
             text[i] # "\n" /\ \A j \in (i + 1)..Len(text) : text[j] = "\n"

\* the full stops in a row that end at position i
RECURSIVE DotRun(_, _)
DotRun(text, i) ==
    IF i = 0 \/ text[i] # "." THEN 0 ELSE 1 + DotRun(text, i - 1)

\* The pause pending when the text ends, read off the text: the pause of
\* the last visible character and a long pause per line break after it. A
\* full stop that is the third of an ellipsis leaves the ellipsis pause.
PendingPause(rp, text) ==
    LET k == LastVisibleAt(text)
        own == IF k = 0 THEN 0
               ELSE IF text[k] \in {",", ";", ":"} THEN rp.pause_short
               ELSE IF text[k] = "."
               THEN IF DotRun(text, k) % 3 = 0 THEN rp.pause_ellipsis ELSE rp.pause_long
               ELSE IF text[k] \in {"!", "?"} THEN rp.pause_long
               ELSE 0
    IN  own + (Len(text) - k) * rp.pause_long

-----------------------------------------------------------------------------
-----------------------------------------------------------------------------
\* position of the first full stop of the text, 0 if there is none
FirstDotAt(text) ==
    IF \A i \in 1..Len(text) : text[i] # "." THEN 0
    ELSE CHOOSE i \in 1..Len(text) : text[i] = "." /\ \A j \in 1..(i - 1) : text[j] # "."

\* the text has an ellipsis, and it starts at the first full stop
StartsEllipsisAt(text, i) ==
    i > 0 /\ i + 2 <= Len(text) /\ text[i + 1] = "." /\ text[i + 2] = "."

\* C22: of a literal ellipsis the first dot takes the base time and the
\* pause carried from before it, the second dot the base time and the
\* ellipsis pause, the third dot the base time alone, and a character right
\* after the third dot the base time alone.
C22_EllipsisPausesSecondDotOnly ==
    TwReturned =>
        LET i == FirstDotAt(tw.text)
            k == VisibleBefore(tw.text, i) + 1
        IN  StartsEllipsisAt(tw.text, i) =>
                /\ TwTime(k) = TwBase + PendingPause(tw.rp, SubSeq(tw.text, 1, i - 1))
                /\ TwTime(k + 1) = TwBase + tw.rp.pause_ellipsis
                /\ TwTime(k + 2) = TwBase
                /\ (i + 3 <= Len(tw.text) /\ tw.text[i + 3] # "\n") => TwTime(k + 3) = TwBase

-----------------------------------------------------------------------------
(* Part 4: the text layout on its own.                                      *)
(* SpecWrap calls TextLayout.wrap once on a text over a narrow letter, a    *)
(* wide letter, the space and the line break, at a width below the wide     *)
(* letter, at one that holds it and at one that holds four narrow letters.  *)

\* Longest text handed to wrap.
MaxWrapLen == 5

WrapAlphabet == {"a", "W", " ", "\n"}
WrapTexts == UNION {[1..n -> WrapAlphabet] : n \in 0..MaxWrapLen}
WrapWidths == {15, 25, 45}

InitWrap ==
    /\ BoxAtRest
    /\ tw = NoTw
    /\ ViewIdle
    /\ PresenterIdle
    /\ InventoryIdle
    /\ HitIdle
    /\ \E text \in WrapTexts, w \in WrapWidths : wr = [text |-> text, wrap_w |-> w, out |-> <<>>]

WrapCall ==
    /\ wr.out = <<>>
    /\ wr' = [wr EXCEPT !.out = <<Wrap(wr.text, wr.wrap_w)>>]
    /\ UNCHANGED <<modelvars, presses, snaps, boxvars, tw, viewvars, presvars, invvars, hit>>

NextWrap == WrapCall

SpecWrap == InitWrap /\ [][NextWrap]_vars

-----------------------------------------------------------------------------
(* Vocabulary of the wrap claims *)

WrReturned == wr.out # <<>>
WrLines == wr.out[1]

RECURSIVE Concat(_)
Concat(seqs) == IF seqs = <<>> THEN <<>> ELSE Head(seqs) \o Concat(Tail(seqs))

\* the characters of s that are no spaces
Inked(s) == SelectSeq(s, LAMBDA c : c # " ")

\* the tokens of the text: the words of its raw lines
Tokens(text) == UNION {{SplitWords(raw)[k] : k \in 1..Len(SplitWords(raw))} :
                       raw \in {SplitLines(text)[i] : i \in 1..Len(SplitLines(text))}}

\* the tokens wrap hands to _hard_wrap_long_word
LongTokens == {t \in Tokens(wr.text) : Measure(t) > wr.wrap_w}

\* the numbers of inked characters at the ends of the first k of the lines
Cuts(lines) == {Len(Inked(Concat(SubSeq(lines, 1, k)))) : k \in 0..Len(lines)}

-----------------------------------------------------------------------------
\* C28 as stated: every line of wrap's output wraps, at the same width, to
\* itself.
C28_AsStated ==
    WrReturned => \A k \in 1..Len(WrLines) : Wrap(WrLines[k], wr.wrap_w) = <<WrLines[k]>>

\* C28: every non-empty line of wrap's output wraps, at the same width, to
\* itself, and an empty line of the output wraps to no line.
C28_WrapIdempotent ==
    WrReturned =>
        \A k \in 1..Len(WrLines) :
            Wrap(WrLines[k], wr.wrap_w) = IF WrLines[k] = <<>> THEN <<>> ELSE <<WrLines[k]>>

\* two words that share no line, the second one hard-split
C28_Witness ==
    /\ WrReturned
    /\ wr.wrap_w = 25
    /\ wr.text = <<"a", " ", "W", "a", "a">>
    /\ WrLines = << <<"a">>, <<"W">>, <<"a", "a">> >>

-----------------------------------------------------------------------------
\* C29: no line of wrap's output is wider than the wrap width, except a
\* line of one character that is itself wider.
C29_LinesFitWidth ==
    WrReturned =>
        \A k \in 1..Len(WrLines) :
            \/ Measure(WrLines[k]) <= wr.wrap_w
            \/ Len(WrLines[k]) = 1 /\ CharWidth(WrLines[k][1]) > wr.wrap_w

\* a wide letter alone on its line at a width below it, after a hard split
C29_Witness ==
    /\ WrReturned
    /\ wr.wrap_w = 15
    /\ wr.text = <<"a", "W", "a", " ", "a">>
    /\ WrLines = << <<"a">>, <<"W">>, <<"a">>, <<"a">> >>

-----------------------------------------------------------------------------
\* C30: the chunks of a hard-split token are non-empty and make up the
\* token in order, and every line break of the text is a line boundary of
\* wrap's output: no line holds a line break, each raw line gives at least
\* one line, and the output is cut wherever the raw lines are.
C30_HardSplitProgress ==
    WrReturned =>
        /\ \A t \in LongTokens :
              LET chunks == HardWrapLongWord(t, wr.wrap_w)
              IN  /\ \A k \in 1..Len(chunks) : chunks[k] # <<>>
                  /\ Concat(chunks) = t
        /\ \A k \in 1..Len(WrLines) : \A j \in 1..Len(WrLines[k]) : WrLines[k][j] # "\n"
        /\ wr.text # <<>> => Len(WrLines) >= Len(SplitLines(wr.text))
        /\ Cuts(SplitLines(wr.text)) \subseteq Cuts(WrLines)
        /\ Inked(Concat(WrLines)) = Inked(Concat(SplitLines(wr.text)))

\* a token of three letters split in two chunks, and a line break kept
C30_Witness ==
    /\ WrReturned
    /\ wr.wrap_w = 25
    /\ wr.text = <<"a", "a", "a", "\n", "W">>
    /\ WrLines = << <<"a", "a">>, <<"a">>, <<"W">> >>

-----------------------------------------------------------------------------
(* Part 5: the text view on its own.                                        *)
(* SpecView drives a TextView with the visible entries of a TextModel in    *)
(* typewriter mode: lines are appended, released and revealed by update,    *)
(* and the view is asked to lay out, to measure and to draw them.           *)

\* Entries created over a run of the view.
MaxViewEntries == 2

ThreeWords == <<"a", "a", " ", "a", "a", " ", "a", "a">>
ViewLines == {ThreeWords}
\* three characters of typewriter time
ViewDts == {3 * TwBase}
\* widths handed to ensure_layout: none, none, two letters, four letters
LayoutWidths == {-5, 0, 25, 45}
\* the widths that are no width
ZeroWidths == {w \in LayoutWidths : w <= 0}
\* widget rects handed to draw_into: viewports 0, 25 and 45 wide, 400 and 52 high
ViewRectWidths == {70, 25 + 70, 45 + 70}
ViewRectHeights == {DefaultRectH, 52 + 48}
\* scroll offsets handed to draw_into: the top, and the bottom of three
\* sub-lines in the low viewport
ScrollYs == {0, 36}

InitView ==
    /\ BoxBuiltWith(TypewriterReveal)
    /\ PartsIdle

ViewRest ==
    UNCHANGED <<presses, snaps, scroller, choices, rect_h, follow_bottom, shrunk, tw, wr,
                rect_w, presvars, invvars, hit>>

ViewAppendLine ==
    /\ nextId < MaxViewEntries
    /\ \E x \in ViewLines : AppendLine(x, TRUE, FALSE)
    /\ UNCHANGED <<theme, view, vret>>
    /\ ViewRest

ViewUpdate ==
    /\ \E dt \in ViewDts : Update(dt)
    /\ UNCHANGED <<theme, view, vret>>
    /\ ViewRest

ViewClear ==
    /\ Clear
    /\ UNCHANGED <<theme, view, vret>>
    /\ ViewRest

ViewEnsureLayout(w) ==
    /\ ModelIdle
    /\ ViewRest
    /\ UNCHANGED theme
    /\ view' = EnsureLayout(view, theme, w, visible)
    /\ vret' = [NoVret EXCEPT !.op = "ensure_layout"]

ViewContentHeight ==
    /\ ModelIdle
    /\ ViewRest
    /\ UNCHANGED theme
    /\ view' = FillCache(view, theme, visible)
    /\ vret' = [NoVret EXCEPT !.op = "content_height",
                              !.height = CachedHeight(view', theme, visible)]

ViewInvalidateLayout ==
    /\ ModelIdle
    /\ ViewRest
    /\ UNCHANGED theme
    /\ view' = InvalidateLayout(view)
    /\ vret' = [NoVret EXCEPT !.op = "invalidate_layout"]

ViewSetTheme(th) ==
    /\ ModelIdle
    /\ ViewRest
    /\ theme' = th
    /\ view' = InvalidateLayout(view)
    /\ vret' = [NoVret EXCEPT !.op = "set_theme"]

ViewDrawInto(rw, rh, scroll_y) ==
    /\ ModelIdle
    /\ ViewRest
    /\ UNCHANGED theme
    /\ LET r == DrawInto(view, theme, rw, rh, visible, scroll_y)
       IN  /\ view' = r.view
           /\ vret' = [op |-> "draw_into", height |-> 0,
                       raised |-> r.raised, drawn |-> r.drawn,
                       indicator |-> r.indicator]

ViewEnsureLayoutStep == \E w \in LayoutWidths : ViewEnsureLayout(w)
ViewSetThemeStep == ViewSetTheme(DefaultTheme)
ViewDrawIntoStep ==
    \E rw \in ViewRectWidths, rh \in ViewRectHeights, sy \in ScrollYs : ViewDrawInto(rw, rh, sy)

NextView ==
    \/ ViewAppendLine
    \/ ViewUpdate
    \/ ViewClear
    \/ ViewEnsureLayoutStep
    \/ ViewContentHeight
    \/ ViewInvalidateLayout
    \/ ViewSetThemeStep
    \/ ViewDrawIntoStep

SpecView == InitView /\ [][NextView]_vars

-----------------------------------------------------------------------------
(* Vocabulary of the view claims *)

Drew == vret.op = "draw_into" /\ ~vret.raised

IsDrawInto ==
    \E rw \in ViewRectWidths, rh \in ViewRectHeights, sy \in ScrollYs : ViewDrawInto(rw, rh, sy)

\* the characters of the sub-lines of an entry that lie before sub-line j
CharsBefore(rows, j) == SeqSum([i \in 1..(j - 1) |-> rows[i].len])

\* an entry from which a sub-line was left out of the drawing while a later
\* one was drawn with budget left
SkippedThenDrawn(d) ==
    \E i, j \in 1..Len(d.rows) :
        i < j /\ ~d.rows[i].inview /\ d.rows[i].len > 0 /\ d.rows[j].inview /\ d.budget > 0

\* the layouts of the cache were wrapped at the width w from the text of
\* their entry
CacheWrappedAt(v, w, entries) ==
    \A id \in DOMAIN v.cache :
        /\ v.cache[id].at = w
        /\ id \in EntryIds(entries) =>
              v.cache[id].lines = Wrap(EntryOf(entries, id).text, w)

\* what the entries measure when wrapped at the width w
HeightAt(th, entries, w) ==
    IF entries = <<>> THEN 0
    ELSE SeqSum([i \in 1..Len(entries) |-> RenderHeight(th, Wrap(entries[i].text, w))])
         + (Len(entries) - 1) * th.entry_gap

-----------------------------------------------------------------------------
\* C23: of a typewriter entry with budget chars_to_show, draw_into blits
\* from every sub-line j it draws min(len_j, max(0, chars_to_show - the
\* lengths of the sub-lines before j)) characters, whether or not the
\* sub-lines before j lie inside the viewport.
C23_BudgetCarriedAcrossSubLines ==
    Drew =>
        \A k \in 1..Len(vret.drawn) :
            LET d == vret.drawn[k]
            IN  d.typing =>
                    \A j \in 1..Len(d.rows) :
                        d.rows[j].inview =>
                            d.rows[j].shown =
                                Min(d.rows[j].len, Max(0, d.budget - CharsBefore(d.rows, j)))

-----------------------------------------------------------------------------
\* C24 as stated: after ensure_layout(w, entries) with a width w the cache
\* holds a layout for exactly the entries given, each wrapped at w, and a
\* height returned by content_height or used by draw_into was measured at
\* the wrap width in force, the width of the view, whatever calls came
\* before.
C24_AsStated ==
    /\ [][\A w \in LayoutWidths : (w > 0 /\ ViewEnsureLayout(w)) =>
              /\ DOMAIN view'.cache = EntryIds(visible)
              /\ CacheWrappedAt(view', w, visible)]_vars
    /\ [][ViewContentHeight =>
              /\ \A id \in EntryIds(visible) : view'.cache[id].at = view.wrap_w
              /\ vret'.height = HeightAt(theme, visible, view.wrap_w)]_vars
    /\ [][(IsDrawInto /\ ~vret'.raised) =>
              /\ DOMAIN view'.cache = EntryIds(visible)
              /\ CacheWrappedAt(view', view'.wrap_w, visible)]_vars

\* C24: while a positive wrap width is in force, every layout of the cache
\* was wrapped at that width from the text of its entry; ensure_layout(w,
\* entries) with w > 0 leaves a layout for exactly the entries given, and
\* content_height returns, and draw_into uses, heights measured at the
\* width in force. With no positive width in force content_height measures
\* the entries it does not find at the fallback width, and the next
\* ensure_layout with a positive width keeps none of those layouts.
C24_NoStaleWidth ==
    /\ [](view.wrap_w > 0 => CacheWrappedAt(view, view.wrap_w, visible))
    /\ [][\A w \in LayoutWidths : (w > 0 /\ ViewEnsureLayout(w)) =>
              /\ DOMAIN view'.cache = EntryIds(visible)
              /\ view'.wrap_w = w]_vars
    /\ [][ViewContentHeight =>
              IF view.wrap_w > 0
              THEN vret'.height = HeightAt(theme, visible, view.wrap_w)
              ELSE /\ vret'.height = HeightAt(theme, visible, FallbackWrapW)
                   /\ \A id \in EntryIds(visible) : view'.cache[id].at = FallbackWrapW]_vars
    /\ [][(IsDrawInto /\ ~vret'.raised) =>
              /\ view'.wrap_w > 0 \/ visible = <<>>
              /\ DOMAIN view'.cache = EntryIds(visible)]_vars

\* two entries laid out at the width of two letters after they had been
\* laid out at the width of four
C24_Witness ==
    /\ vret.op = "ensure_layout"
    /\ view.wrap_w = 25
    /\ Len(visible) = 2
    /\ DOMAIN view.cache = EntryIds(visible)
    /\ \A id \in DOMAIN view.cache : Len(view.cache[id].lines) = 3

-----------------------------------------------------------------------------
\* C25: with a zero or negative width and any visible entries,
\* ensure_layout leaves no cached layout, content_height reports the
\* height zero, and draw_into draws nothing and does not raise.
C25_ZeroWidthDegenerates ==
    /\ [][\A w \in ZeroWidths : ViewEnsureLayout(w) => DOMAIN view'.cache = {}]_vars
    /\ [][(ViewContentHeight /\ view.wrap_w \in ZeroWidths) => vret'.height = 0]_vars
    /\ [][\A rw \in ViewRectWidths, rh \in ViewRectHeights, sy \in ScrollYs :
              (ViewDrawInto(rw, rh, sy) /\ ViewportWidth(theme, rw) <= 0) =>
                  ~vret'.raised /\ vret'.drawn = <<>>]_vars

-----------------------------------------------------------------------------
(* Part 6: the node presenter, engine/narrative/presenter.py               *)
(* (class NodePresenter), built with insert_node_separator=False and no    *)
(* clear_after_nodes: show_node then neither clears nor trims the box.     *)

\* Entries created over a run of the presenter: the two lines of the start
\* node, the echoes of the choices and the line of the end node.
MaxPresenterEntries == 5

\* indices handed to submit_choice_index (0-based, as in the source)
SubmitIndices == -1..3
\* frame times: half an intro, an intro less the tolerance
PresenterDts == {IntroDuration \div 2, IntroDuration - Eps}
PresenterRectHeights == {DefaultRectH, 120}

\* show_node: f"> {(c.text or c.id)}{(' [WIP]' if c.goto is None else '')}"
WipSuffix == <<" ", "[", "W", "I", "P", "]">>
PreparedLabel(c) ==
    <<">", " ">> \o (IF c.text # <<>> THEN c.text ELSE c.id)
                 \o (IF c.goto = None THEN WipSuffix ELSE <<>>)

\* submit_choice_index: label = ch.text or ch.id, echoed behind "You: "
YouPrefix == <<"Y", "o", "u", ":", " ">>
Echo(c) == YouPrefix \o (IF c.text # <<>> THEN c.text ELSE c.id)

\* a submit_choice_index that takes every choice for a resolved one
GotoAlways(c) == TRUE

\* submit_choice_index: "if not ch.goto: return  # WIP choice"
GotoResolved(c) == c.goto # None /\ c.goto[1] # ""

\* the objects a call of the presenter reads and writes
PresState ==
    [visible |-> visible, pending |-> pending, nextId |-> nextId,
     release_timer |-> release_timer, scroller |-> scroller, choices |-> choices,
     follow_bottom |-> follow_bottom, presenter |-> presenter]

\* TextBox.clear
BoxClearOn(st) ==
    [st EXCEPT !.visible = <<>>, !.pending = <<>>, !.release_timer = 0,
               !.scroller = ToTop(@)]

\* TextBox.append_visible_lines(lines, animated): the lines go straight to
\* the visible list, behind what is there
BoxAppendVisibleLinesOn(st, lines, animated) ==
    [st EXCEPT !.visible = VisibleLoop(st.visible, st.nextId, lines, animated),
               !.nextId = @ + Len(lines)]

\* TextBox.trim_oldest_entries(n): the oldest n visible entries go, the
\* pending ones stay
BoxTrimOldestOn(st, n) ==
    [st EXCEPT !.visible = DropFront(st.visible, TrimCount(n, st.visible))]

\* _insert_separator_if_needed: a separator counted with the previous node
InsertSeparatorOn(st) ==
    LET p == st.presenter
        n == Len(p.node_sizes)
    IN  IF p.insert_node_separator /\ n > 0 /\ st.visible # <<>>
        THEN [BoxAppendVisibleLinesOn(st, <<p.separator_text>>, FALSE) EXCEPT
                !.presenter.node_sizes[n] = @ + 1]
        ELSE st

\* an _enforce_node_limit that never trims
EnforceNone(st) == st

\* the loop of _enforce_node_limit for a limit > 0
RECURSIVE TrimToLimit(_, _)
TrimToLimit(st, limit) ==
    LET sizes == st.presenter.node_sizes
    IN  IF Len(sizes) <= limit THEN st
        ELSE LET st1 == [st EXCEPT !.presenter.node_sizes = Tail(sizes)]
             IN  TrimToLimit(IF Head(sizes) > 0 THEN BoxTrimOldestOn(st1, Head(sizes))
                             ELSE st1, limit)

\* _enforce_node_limit
EnforceNodeLimitOn(st) ==
    LET p == st.presenter
        total_before == SeqSum(p.node_sizes)
    IN  IF p.clear_after_nodes = None THEN st
        ELSE IF p.clear_after_nodes[1] = 0
        THEN IF total_before # 0
             THEN [BoxTrimOldestOn(st, total_before) EXCEPT !.presenter.node_sizes = <<>>]
             ELSE st
        ELSE TrimToLimit(st, p.clear_after_nodes[1])

\* show_node(node): hide the overlay, follow the bottom, queue the say block
\* behind the player's input, count its lines, prepare the labels, scroll
\* to the bottom
ShowNodeOn(st, node) ==
    LET hidden == [st EXCEPT !.choices = Hide]
        \* 0 => keep only the current node; else a separator for the previous one
        st1 == IF st.presenter.clear_after_nodes = Some(0)
               THEN IF SeqSum(st.presenter.node_sizes) # 0
                    THEN [BoxClearOn(hidden) EXCEPT !.presenter.node_sizes = <<>>]
                    ELSE hidden
               ELSE InsertSeparatorOn(hidden)
        lines == SplitLines(node.say)
        q == QueueLoop(st1.visible, st1.pending, st1.nextId, lines, TRUE)
        st2 == [st1 EXCEPT !.follow_bottom = TRUE,
                           !.visible = q.visible,
                           !.pending = q.pending,
                           !.nextId = @ + Len(lines),
                           !.presenter.node_sizes = Append(@, Len(lines))]
        st3 == EnforceNodeLimitOn(st2)
    IN  [st3 EXCEPT
           !.presenter.prepared = IF node.choices # <<>>
                                  THEN Some([i \in 1..Len(node.choices) |->
                                                PreparedLabel(node.choices[i])])
                                  ELSE None,
           !.presenter.choices = IF node.choices # <<>> THEN Some(node.choices) ELSE None,
           !.presenter.shown = (node.choices = <<>>),
           !.scroller = ToBottom(SyncScrollMetrics(st3.scroller, theme, rect_h,
                                                   st3.visible, Hide))]

\* submit_choice_index(idx) past its guards: echo the choice, count the
\* echo with the node, scroll to the bottom, show the node it leads to
SubmitOn(st, ch) ==
    LET e == MakeEntry(st.nextId, Echo(ch), FALSE, FALSE)
        vis1 == Append(st.visible, [e EXCEPT !.visible = TRUE,
                                             !.is_player_choice = TRUE,
                                             !.t = 0])
        n == Len(st.presenter.node_sizes)
        p1 == IF n > 0
              THEN [st.presenter EXCEPT !.node_sizes[n] = @ + 1]
              ELSE st.presenter
        st1 == [st EXCEPT
                  !.visible = vis1,
                  !.nextId = @ + 1,
                  !.presenter = p1,
                  !.scroller = ToBottom(SyncScrollMetrics(st.scroller, theme, rect_h,
                                                          vis1, st.choices)),
                  !.follow_bottom = TRUE]
    IN  IF ch.goto # None /\ ch.goto[1] \in DOMAIN st.presenter.story
        THEN ShowNodeOn(st1, st.presenter.story[ch.goto[1]])
        ELSE st1

\* submit_choice_index(idx), with its guards
SubmitChoiceIndexOn(st, idx) ==
    LET p == st.presenter
    IN  IF ~p.shown \/ p.choices = None THEN st
        ELSE IF idx < 0 \/ idx >= Len(p.choices[1]) THEN st
        ELSE IF ~GotoResolved(p.choices[1][idx + 1]) THEN st
        ELSE SubmitOn(st, p.choices[1][idx + 1])

\* the state a call of the presenter leaves
PresApply(st) ==
    /\ visible' = st.visible
    /\ pending' = st.pending
    /\ nextId' = st.nextId
    /\ release_timer' = st.release_timer
    /\ scroller' = st.scroller
    /\ choices' = st.choices
    /\ follow_bottom' = st.follow_bottom
    /\ presenter' = st.presenter
    /\ ret' = NoRet
    /\ UNCHANGED <<reveal, rect_h, theme>>

PresRest == UNCHANGED <<presses, snaps, shrunk, tw, wr, viewvars, invvars, hit>>

InitPresenter == BoxAtRest /\ PartsIdle

\* the scene shows the start node once, when it is entered
ShowStart ==
    /\ nextId = 0
    /\ PresApply(ShowNodeOn(PresState, presenter.story["start"]))
    /\ submitted' = None
    /\ PresRest

\* an update that never finds the say block revealed
SayRevealedNever(vis, pend) == FALSE

\* an update that does not wait for the pending lines
SayRevealedEarly(vis, pend) == LastDone(vis)

\* update: "show when the say block is fully revealed (no pending + last
\* line finished)"
SayRevealed(vis, pend) == pend = <<>> /\ LastDone(vis)

\* NodePresenter.update: once the say block is out and its last line done,
\* open the overlay with the prepared labels
PresenterUpdate ==
    /\ IF ~presenter.shown /\ presenter.prepared # None
          /\ SayRevealed(visible, pending)
       THEN /\ ShowChoiceBox(presenter.prepared[1])
            /\ presenter' = [presenter EXCEPT !.shown = TRUE]
       ELSE /\ ModelIdle
            /\ UNCHANGED <<boxvars, presenter>>
    /\ submitted' = None
    /\ PresRest

SubmitChoiceIndex(idx) ==
    /\ PresApply(SubmitChoiceIndexOn(PresState, idx))
    /\ submitted' = Some(idx)
    /\ PresRest

\* a submit may echo one entry and queue the one line of the end node
SubmitStep ==
    /\ nextId + 2 <= MaxPresenterEntries
    /\ \E idx \in SubmitIndices : SubmitChoiceIndex(idx)
PresBoxUpdate == (\E dt \in PresenterDts : BoxUpdate(dt)) /\ UNCHANGED presvars /\ PresRest
PresBoxPress == BoxPress /\ UNCHANGED presvars /\ PresRest
PresResize ==
    /\ \E h \in PresenterRectHeights : OnResize(h)
    /\ UNCHANGED presvars
    /\ PresRest

NextPresenter ==
    \/ ShowStart
    \/ PresenterUpdate
    \/ SubmitStep
    \/ PresBoxUpdate
    \/ PresBoxPress
    \/ PresResize

SpecPresenter == InitPresenter /\ [][NextPresenter]_vars

-----------------------------------------------------------------------------
(* Vocabulary of the presenter claims *)

\* the choices on offer, and the one a 0-based index names
Offered == IF presenter.choices = None THEN <<>> ELSE presenter.choices[1]
Unresolved(idx) ==
    /\ presenter.shown
    /\ idx >= 0 /\ idx < Len(Offered)
    /\ Offered[idx + 1].goto = None

-----------------------------------------------------------------------------
\* C26: selecting a choice whose goto is None is a silent no-op:
\* submit_choice_index appends no echo line, shows no node, leaves the
\* model's visible and pending entries and the presenter's node bookkeeping
\* unchanged, and the choice overlay stays open with the same labels.
C26_UnresolvedChoiceIsNoOp ==
    [][\A idx \in SubmitIndices :
          (SubmitChoiceIndex(idx) /\ Unresolved(idx)) =>
              /\ UNCHANGED <<visible, pending, nextId, presenter>>
              /\ Active(choices')
              /\ choices' = choices
              /\ choices'.lines = presenter.prepared[1]]_vars

\* the work-in-progress choice of the start node was submitted with the
\* overlay open: the two lines of the node are all the box holds
C26_Witness ==
    /\ submitted = Some(1)
    /\ Unresolved(1)
    /\ Active(choices)
    /\ Len(choices.lines) = 3
    /\ Texts(visible) = <<Hello, World>>
    /\ pending = <<>>
    /\ presenter.node_sizes = <<2>>

-----------------------------------------------------------------------------
\* a step of the presenter that shows a node: one more node is counted
ShowsNode == Len(presenter'.node_sizes) > Len(presenter.node_sizes)
\* an update of the presenter that opens the overlay
OpensOverlay == PresenterUpdate /\ choices' # choices

\* C34 as stated: NodePresenter.update calls show_choice_box only in a state
\* with pending_count == 0 and the last visible entry finished, it does so
\* at most once per shown node, and show_node always hides the overlay of
\* the previous node first.
C34_AsStated ==
    /\ [][OpensOverlay =>
              /\ pending = <<>>
              /\ visible = <<>> \/ Settled(visible[Len(visible)])]_vars
    /\ [][OpensOverlay => ~presenter.shown /\ presenter'.shown]_vars
    /\ [][(presenter.shown /\ ~presenter'.shown) => ShowsNode]_vars
    /\ [][ShowsNode => ~Active(choices')]_vars

\* C34: NodePresenter.update calls show_choice_box only in a state with
\* pending_count == 0 and the last visible entry finished or within 1e-4 s
\* of its duration, it does so at most once per shown node, and show_node
\* always hides the overlay of the previous node first.
C34_ChoicesAfterText ==
    /\ [][OpensOverlay =>
              /\ pending = <<>>
              /\ \/ visible = <<>>
                 \/ visible[Len(visible)].t >= visible[Len(visible)].duration - Eps]_vars
    /\ [][OpensOverlay => ~presenter.shown /\ presenter'.shown]_vars
    /\ [][(presenter.shown /\ ~presenter'.shown) => ShowsNode]_vars
    /\ [][ShowsNode => ~Active(choices')]_vars

\* the overlay of the start node is open behind its two settled lines
C34_Witness ==
    /\ presenter.shown
    /\ presenter.node_sizes = <<2>>
    /\ Active(choices)
    /\ choices.lines = presenter.prepared[1]
    /\ pending = <<>>
    /\ Texts(visible) = <<Hello, World>>
    /\ Settled(visible[2])

-----------------------------------------------------------------------------
\* the part of NodePresenter.update that opens the overlay: _shown goes up
PresenterShows ==
    /\ ~presenter.shown /\ presenter.prepared # None
    /\ SayRevealed(visible, pending)
    /\ presenter' = [presenter EXCEPT !.shown = TRUE]

\* the entries and the release timer, which TextModel.update and
\* TextModel.on_player_press move
revealvars == <<visible, pending, release_timer>>

\* NovelScene.update calls presenter.update(dt) and textbox.update(dt) on
\* every frame, and handle_event hands every advance key to the text box
\* while no overlay is open: while frames and presses keep coming, the
\* model's update, the model's on_player_press and the presenter's update
\* do not stay able to move the reveal for ever without doing so.
SpecPresenterLive ==
    /\ InitPresenter
    /\ [][NextPresenter]_vars
    /\ WF_revealvars(\E dt \in PresenterDts : Update(dt))
    /\ WF_revealvars(OnPlayerPress)
    /\ WF_presenter(PresenterShows)

\* the presenter has shown a node with choices and not yet opened the overlay
AwaitingChoices == presenter.prepared # None /\ ~presenter.shown
\* the overlay is open with the labels the presenter prepared
OverlayShown ==
    /\ presenter.shown
    /\ Active(choices)
    /\ presenter.prepared # None /\ choices.lines = presenter.prepared[1]
\* the entry made as the i-th of the run waits to be released
LinePending(i) == \E j \in 1..Len(pending) : pending[j].id = i
\* the entry made as the i-th of the run is visible and has finished its intro
LineSettled(i) == \E j \in 1..Len(visible) : visible[j].id = i /\ Settled(visible[j])

\* C35: liveness of a node with choices: after show_node of a node that has
\* at least one choice, if player presses and update(dt > 0) ticks keep
\* occurring, every line of the node eventually becomes visible and settled
\* and the choice overlay is eventually shown.
C35_NodeWithChoicesIsRevealed ==
    /\ AwaitingChoices ~> OverlayShown
    /\ (AwaitingChoices /\ LinePending(0)) ~> LineSettled(0)
    /\ (AwaitingChoices /\ LinePending(1)) ~> LineSettled(1)

\* the start node was shown and has run its course: both of its lines are
\* visible and settled, nothing is pending, the overlay is open and no
\* choice was submitted yet
C35_Witness ==
    /\ OverlayShown
    /\ LineSettled(0) /\ LineSettled(1)
    /\ pending = <<>>
    /\ submitted = None
    /\ nextId = 2

-----------------------------------------------------------------------------
(* Part 7: resizing the text box, TextBox.on_resize with the heights read  *)
(* from the TextView's layout cache                                        *)

ResizeRectWidths == {70, 25 + 70, 45 + 70}
ResizeRectHeights == {52 + 48}

\* TextBox._visual_content_height over the view: content_height fills the
\* cache for the entries it misses
VisualContentHeightOf(v, th, vis, c) ==
    CachedHeight(FillCache(v, th, vis), th, vis) + LastEntryAnimOffset(vis)
    + (IF Active(c) THEN ChoiceGapAbove(th) + CalcHeight(th, c.lines) ELSE 0)

\* TextBox._sync_scroll_metrics over the view: the scroller and the view it leaves
SyncWithView(s, v, th, rh, vis, c) ==
    [scroller |-> Clamp([s EXCEPT !.viewport_h = ViewportHeight(th, rh),
                                  !.content_h = VisualContentHeightOf(v, th, vis, c)]),
     view |-> FillCache(v, th, vis)]

\* an on_resize that leaves the offset where the clamp put it
RestoreOffsetNone(was_bottom, s0, s1) == s1

\* on_resize, its last four lines: to the bottom if it was near the bottom,
\* else the old share of the new range (whole pixels)
RestoreOffset(was_bottom, s0, s1) ==
    IF was_bottom THEN ToBottom(s1)
    ELSE [s1 EXCEPT !.offset = (ScrollMax(s1) * s0.offset) \div Max(1, ScrollMax(s0))]

\* on_resize(new_rect)
OnResizeRect(new_w, new_h) ==
    LET a == SyncWithView(scroller, view, theme, rect_h, visible, choices)
        was_bottom == NearBottom(a.scroller)
        v1 == EnsureLayout(a.view, theme, ViewportWidth(theme, new_w), visible)
        b == SyncWithView(a.scroller, v1, theme, new_h, visible, choices)
    IN  /\ ModelIdle
        /\ UNCHANGED <<choices, follow_bottom, theme>>
        /\ rect_w' = new_w
        /\ rect_h' = new_h
        /\ scroller' = RestoreOffset(was_bottom, a.scroller, b.scroller)
        /\ view' = b.view

\* append_line(line, animated=False): shown at once, anchored when near the bottom
AppendLineRect(line) ==
    /\ AppendLine(line, FALSE, FALSE)
    /\ LET a == SyncWithView(scroller, view, theme, rect_h, visible', choices)
       IN  /\ scroller' = IF NearBottom(a.scroller) THEN ToBottom(a.scroller)
                          ELSE a.scroller
           /\ view' = a.view
    /\ UNCHANGED <<choices, rect_h, rect_w, follow_bottom, theme>>

\* draw: draw_into lays the entries out at the viewport's width
DrawRect ==
    /\ rect_w > 0 /\ rect_h > 0
    /\ LET r == DrawInto(view, theme, rect_w, rect_h, visible, scroller.offset)
       IN  /\ view' = IF r.raised THEN r.view ELSE FillCache(r.view, theme, visible)
           /\ vret' = [op |-> "draw_into", height |-> 0,
                       raised |-> r.raised, drawn |-> r.drawn,
                       indicator |-> r.indicator]
    /\ ModelIdle
    /\ UNCHANGED <<boxvars, rect_w>>

ResizeRest == UNCHANGED <<presses, snaps, shrunk, tw, wr, presvars, invvars, hit>>

InitResize == BoxAtRest /\ PartsIdle

ResizeStep ==
    /\ \E w \in ResizeRectWidths, h \in ResizeRectHeights : OnResizeRect(w, h)
    /\ UNCHANGED vret
    /\ ResizeRest
ResizeAppend ==
    /\ nextId < MaxViewEntries
    /\ \E x \in ViewLines : AppendLineRect(x)
    /\ UNCHANGED vret
    /\ ResizeRest
ResizeScroll ==
    /\ \E dy \in BoxScrollDeltas : Scroll(dy)
    /\ UNCHANGED viewvars
    /\ ResizeRest
ResizeDraw == DrawRect /\ ResizeRest

NextResize ==
    \/ ResizeStep
    \/ ResizeAppend
    \/ ResizeScroll
    \/ ResizeDraw

SpecResize == InitResize /\ [][NextResize]_vars

-----------------------------------------------------------------------------
(* Vocabulary of the resize claim *)

\* the scroller as on_resize finds it once _near_bottom has synced it
OldScroller == SyncWithView(scroller, view, theme, rect_h, visible, choices).scroller

\* the width the entries are measured at when the viewport is w wide
MeasuredAt(w) == IF w > 0 THEN w ELSE FallbackWrapW

\* the largest offset of a box new_w by new_h over the visible entries
NewMaxOffset(new_w, new_h) ==
    Max(0, HeightAt(theme, visible, MeasuredAt(ViewportWidth(theme, new_w)))
           - ViewportHeight(theme, new_h))

\* x is a / b of n, in whole pixels
IsShareOf(x, a, b, n) == x * b <= n * a /\ n * a < (x + 1) * b

\* the layout is rebuilt at the new width before the range is computed
RebuiltAt(new_w, new_h) ==
    /\ ScrollMax(scroller') = NewMaxOffset(new_w, new_h)
    /\ ViewportWidth(theme, new_w) > 0 =>
           /\ DOMAIN view'.cache = EntryIds(visible)
           /\ CacheWrappedAt(view', ViewportWidth(theme, new_w), visible)

-----------------------------------------------------------------------------
\* C27 as stated: on_resize restores the scroll position: if the view was at
\* the bottom before the resize the offset equals the new max_offset
\* afterwards, otherwise the offset equals new max_offset * (old offset / old
\* max_offset); in both cases the layout is rebuilt at the new width before
\* max_offset is computed and the resulting offset lies in [0, new max_offset].
C27_AsStated ==
    [][OnResizeRect(rect_w', rect_h') =>
          /\ IsAtBottom(OldScroller) =>
                 scroller'.offset = NewMaxOffset(rect_w', rect_h')
          /\ ~IsAtBottom(OldScroller) =>
                 IsShareOf(scroller'.offset, OldScroller.offset,
                           ScrollMax(OldScroller), NewMaxOffset(rect_w', rect_h'))
          /\ RebuiltAt(rect_w', rect_h')
          /\ scroller'.offset >= 0
          /\ scroller'.offset <= NewMaxOffset(rect_w', rect_h')]_vars

\* C27: on_resize restores the scroll position: if the view was within the
\* stick-to-bottom threshold of the bottom before the resize the offset
\* equals the new max_offset afterwards, otherwise the offset equals new
\* max_offset * (old offset / old max_offset); in both cases the layout is
\* rebuilt at the new width before max_offset is computed and the resulting
\* offset lies in [0, new max_offset].
C27_ResizeRestoresScroll ==
    [][OnResizeRect(rect_w', rect_h') =>
          /\ NearBottom(OldScroller) =>
                 scroller'.offset = NewMaxOffset(rect_w', rect_h')
          /\ ~NearBottom(OldScroller) =>
                 IsShareOf(scroller'.offset, OldScroller.offset,
                           ScrollMax(OldScroller), NewMaxOffset(rect_w', rect_h'))
          /\ RebuiltAt(rect_w', rect_h')
          /\ scroller'.offset >= 0
          /\ scroller'.offset <= NewMaxOffset(rect_w', rect_h')]_vars

\* two entries, scrolled 72 of 132 px at the width of two letters, resized
\* to the width of four: 37 of the new 68 px
C27_Witness ==
    /\ rect_w = 45 + 70
    /\ view.wrap_w = 45
    /\ Len(visible) = 2
    /\ scroller.content_h = 120
    /\ scroller.viewport_h = 52
    /\ scroller.offset = 37

-----------------------------------------------------------------------------
(* Part 8: the inventory, game/rules/inventory.py (Item, _Stack, Inventory). *)
(* Weights are counted in tenths, so that the weights of the items are     *)
(* whole numbers.                                                           *)

\* Item(id, weight, stackable, max_stack); __post_init__ gives a
\* non-stackable item the max_stack 1
Item(id, weight, stackable, max_stack) ==
    [id |-> id, weight |-> weight, stackable |-> stackable,
     max_stack |-> IF stackable THEN max_stack ELSE 1]

Potion == Item("potion", 2, TRUE, 3)
Sword == Item("sword", 4, FALSE, 99)
Items == {Potion, Sword}
ItemIds == {"potion", "sword", "arrow"}

\* the inventories the calls are made on: three slots, ten tenths of
\* weight, or both
Inventories ==
    {[max_slots |-> Some(3), max_weight |-> None, stacks |-> <<>>],
     [max_slots |-> None, max_weight |-> Some(5 * 2), stacks |-> <<>>],
     [max_slots |-> Some(3), max_weight |-> Some(5 * 2), stacks |-> <<>>]}

\* quantities handed to add and remove
Quantities == 0..5

\* _Stack.weight, Inventory.used_slots, used_weight, count
StackWeight(st) == st.item.weight * st.qty
UsedSlots(stacks) == Len(stacks)
UsedWeight(stacks) == SeqSum([i \in 1..Len(stacks) |-> StackWeight(stacks[i])])
Count(stacks, id) ==
    SeqSum([i \in 1..Len(stacks) |->
               IF stacks[i].item.id = id THEN stacks[i].qty ELSE 0])

\* _Stack.room_left
RoomLeft(st) == IF st.item.stackable THEN st.item.max_stack - st.qty ELSE 0

\* an add that leaves the existing stacks as they are
FillExistingNone(stacks, item, remaining, i) ==
    [stacks |-> stacks, remaining |-> remaining]

\* the first loop of add: _Stack.add_into on every stack of the item, in order
RECURSIVE FillExisting(_, _, _, _)
FillExisting(stacks, item, remaining, i) ==
    IF i > Len(stacks) THEN [stacks |-> stacks, remaining |-> remaining]
    ELSE LET st == stacks[i]
             take == IF st.item.stackable THEN Min(remaining, RoomLeft(st)) ELSE 0
         IN  IF st.item.id = item.id /\ remaining > 0
             THEN FillExisting([stacks EXCEPT ![i].qty = @ + take], item,
                               remaining - take, i + 1)
             ELSE FillExisting(stacks, item, remaining, i + 1)

\* the first loop of _predict_after_add: what is left once the room of the
\* existing stacks is used
RECURSIVE PredictRemaining(_, _, _, _)
PredictRemaining(stacks, item, remaining, i) ==
    IF i > Len(stacks) THEN remaining
    ELSE IF stacks[i].item.id = item.id /\ item.stackable /\ remaining > 0
    THEN PredictRemaining(stacks, item,
                          remaining - Min(remaining, RoomLeft(stacks[i])), i + 1)
    ELSE PredictRemaining(stacks, item, remaining, i + 1)

\* _predict_after_add
PredictAfterAdd(stacks, item, qty) ==
    LET remaining == PredictRemaining(stacks, item, qty, 1)
        needed == IF item.stackable
                  THEN IF remaining > 0
                       THEN (remaining + item.max_stack - 1) \div item.max_stack
                       ELSE 0
                  ELSE remaining
    IN  [new_slots |-> UsedSlots(stacks) + needed,
         new_weight |-> UsedWeight(stacks) + item.weight * qty]

\* the test of add's second loop: one more stack would pass a limit
OverLimit(iv, stacks, item, batch) ==
    LET pr == PredictAfterAdd(stacks, item, batch)
    IN  \/ iv.max_slots # None /\ pr.new_slots > iv.max_slots[1]
        \/ iv.max_weight # None /\ pr.new_weight > iv.max_weight[1]

\* the second loop of add: new stacks while the limits allow
RECURSIVE CreateStacks(_, _, _, _)
CreateStacks(iv, stacks, item, remaining) ==
    IF remaining <= 0 THEN [stacks |-> stacks, remaining |-> remaining]
    ELSE LET batch == Min(remaining, IF item.stackable THEN item.max_stack ELSE 1)
         IN  IF OverLimit(iv, stacks, item, batch)
             THEN [stacks |-> stacks, remaining |-> remaining]
             ELSE CreateStacks(iv, Append(stacks, [item |-> item, qty |-> batch]),
                               item, remaining - batch)

\* add(item, qty): the inventory it leaves and the leftover it returns
AddTo(iv, item, qty) ==
    IF qty <= 0 THEN [inv |-> iv, out |-> 0]
    ELSE LET f == IF item.stackable THEN FillExisting(iv.stacks, item, qty, 1)
                  ELSE [stacks |-> iv.stacks, remaining |-> qty]
             c == CreateStacks(iv, f.stacks, item, f.remaining)
         IN  [inv |-> [iv EXCEPT !.stacks = c.stacks], out |-> c.remaining]

\* the sort key of remove: (s.item.id != item_id, s.qty)
KeyLe(a, b, id) ==
    LET ka == IF a.item.id # id THEN 1 ELSE 0
        kb == IF b.item.id # id THEN 1 ELSE 0
    IN  ka < kb \/ (ka = kb /\ a.qty <= b.qty)

\* list.sort is stable: a stack goes behind the stacks whose key is not larger
RECURSIVE InsertSorted(_, _, _)
InsertSorted(sorted, st, id) ==
    IF sorted = <<>> THEN <<st>>
    ELSE IF KeyLe(sorted[Len(sorted)], st, id) THEN Append(sorted, st)
    ELSE Append(InsertSorted(SubSeq(sorted, 1, Len(sorted) - 1), st, id),
                sorted[Len(sorted)])

\* a remove that takes the stacks in the order it finds them
SortNone(stacks, sorted, id) == stacks

\* remove: self.stacks.sort(key=...)
RECURSIVE SortStacks(_, _, _)
SortStacks(stacks, sorted, id) ==
    IF stacks = <<>> THEN sorted
    ELSE SortStacks(Tail(stacks), InsertSorted(sorted, Head(stacks), id), id)

\* stacks without the one at index i
DelAt(stacks, i) == SubSeq(stacks, 1, i - 1) \o SubSeq(stacks, i + 1, Len(stacks))

\* the loop of remove
RECURSIVE Drain(_, _, _, _, _)
Drain(stacks, id, qty, removed, i) ==
    IF ~(i <= Len(stacks) /\ removed < qty)
    THEN [stacks |-> stacks, removed |-> removed]
    ELSE IF stacks[i].item.id # id THEN Drain(stacks, id, qty, removed, i + 1)
    ELSE LET take == Min(stacks[i].qty, qty - removed)
         IN  IF stacks[i].qty - take = 0
             THEN Drain(DelAt(stacks, i), id, qty, removed + take, i)
             ELSE Drain([stacks EXCEPT ![i].qty = @ - take], id, qty,
                        removed + take, i + 1)

\* remove(item_id, qty): the inventory it leaves and the count it returns
RemoveFrom(iv, id, qty) ==
    IF qty <= 0 THEN [inv |-> iv, out |-> 0]
    ELSE LET d == Drain(SortStacks(iv.stacks, <<>>, id), id, qty, 0, 1)
         IN  [inv |-> [iv EXCEPT !.stacks = d.stacks], out |-> d.removed]

InventoryRest ==
    UNCHANGED <<modelvars, presses, snaps, boxvars, tw, wr, viewvars, presvars, hit>>

InitInventory ==
    /\ BoxAtRest
    /\ tw = NoTw /\ wr = NoWr /\ ViewIdle /\ PresenterIdle /\ HitIdle
    /\ inv \in Inventories
    /\ iret = NoIret

InvAdd(item, qty) ==
    /\ InventoryRest
    /\ LET r == AddTo(inv, item, qty)
       IN  /\ inv' = r.inv
           /\ iret' = [op |-> "add", id |-> item.id, qty |-> qty, out |-> r.out]

InvRemove(id, qty) ==
    /\ InventoryRest
    /\ LET r == RemoveFrom(inv, id, qty)
       IN  /\ inv' = r.inv
           /\ iret' = [op |-> "remove", id |-> id, qty |-> qty, out |-> r.out]

InvAddStep == \E item \in Items, qty \in Quantities : InvAdd(item, qty)
InvRemoveStep == \E id \in ItemIds, qty \in Quantities : InvRemove(id, qty)

NextInventory ==
    \/ InvAddStep
    \/ InvRemoveStep

SpecInventory == InitInventory /\ [][NextInventory]_vars

-----------------------------------------------------------------------------
(* Vocabulary of the inventory claims *)

IsAdd(item, qty) == InvAdd(item, qty) /\ qty >= 0
IsRemove(id, qty) == InvRemove(id, qty) /\ qty >= 0

\* the quantities of the stacks of an item, in the order of the stacks
RECURSIVE QtysOf(_, _)
QtysOf(stacks, id) ==
    IF stacks = <<>> THEN <<>>
    ELSE (IF Head(stacks).item.id = id THEN <<Head(stacks).qty>> ELSE <<>>)
         \o QtysOf(Tail(stacks), id)

\* how often a stack occurs in the list
Occurrences(stacks, st) == Cardinality({i \in 1..Len(stacks) : stacks[i] = st})
StackSet(stacks) == {stacks[i] : i \in 1..Len(stacks)}

\* the stacks of the other items are the same stacks, in whatever order
OthersKept(before, after, id) ==
    \A st \in StackSet(before) \cup StackSet(after) :
        st.item.id # id => Occurrences(before, st) = Occurrences(after, st)

\* q in ascending order
Ascending(q) == \A i \in 1..(Len(q) - 1) : q[i] <= q[i + 1]
SameBag(p, q) ==
    /\ Len(p) = Len(q)
    /\ \A x \in {p[i] : i \in 1..Len(p)} \cup {q[i] : i \in 1..Len(q)} :
          Cardinality({i \in 1..Len(p) : p[i] = x})
              = Cardinality({i \in 1..Len(q) : q[i] = x})
SortedQtys(q) ==
    CHOOSE p \in [1..Len(q) -> {q[i] : i \in 1..Len(q)}] : Ascending(p) /\ SameBag(p, q)

\* r items taken from the front of q, the emptied stacks dropped
RECURSIVE TakeFront(_, _)
TakeFront(q, r) ==
    IF q = <<>> \/ r <= 0 THEN q
    ELSE IF r >= Head(q) THEN TakeFront(Tail(q), r - Head(q))
    ELSE <<Head(q) - r>> \o Tail(q)

StacksWellFormed ==
    \A i \in 1..Len(inv.stacks) :
        inv.stacks[i].qty >= 1 /\ inv.stacks[i].qty <= inv.stacks[i].item.max_stack

-----------------------------------------------------------------------------
\* C31: Inventory.add(item, qty) returns the number of items that could not
\* be added: count(item.id) increases by exactly qty - leftover, existing
\* stacks of the item are filled before new stacks are created, every stack
\* holds between 1 and max_stack items, and used_slots never exceeds
\* max_slots.
C31_AddReturnsLeftover ==
    /\ [](StacksWellFormed
           /\ (inv.max_slots # None => UsedSlots(inv.stacks) <= inv.max_slots[1]))
    /\ [][\A item \in Items, qty \in Quantities :
              IsAdd(item, qty) =>
                  /\ iret'.out >= 0 /\ iret'.out <= qty
                  /\ Count(inv'.stacks, item.id)
                         = Count(inv.stacks, item.id) + qty - iret'.out
                  /\ OthersKept(inv.stacks, inv'.stacks, item.id)
                  /\ Len(inv'.stacks) >= Len(inv.stacks)
                  /\ \A i \in 1..Len(inv.stacks) :
                        /\ inv'.stacks[i].item = inv.stacks[i].item
                        /\ inv'.stacks[i].qty >= inv.stacks[i].qty
                        /\ (Len(inv'.stacks) > Len(inv.stacks) \/ iret'.out > 0)
                              /\ inv.stacks[i].item.id = item.id /\ item.stackable
                           => RoomLeft(inv'.stacks[i]) = 0]_vars

\* five potions added to two potions and a sword in three slots: the stack
\* of two is filled, one new stack is made, one potion is left over
C31_Witness ==
    /\ iret = [op |-> "add", id |-> "potion", qty |-> 5, out |-> 1]
    /\ inv.max_slots = Some(3)
    /\ inv.stacks = <<[item |-> Potion, qty |-> 3], [item |-> Sword, qty |-> 1],
                      [item |-> Potion, qty |-> 3]>>

-----------------------------------------------------------------------------
\* C32: after any sequence of add and remove calls on an inventory with a
\* max_weight, used_weight never exceeds max_weight; an add whose items
\* would exceed the weight limit leaves those items out and returns them as
\* leftover.
C32_WeightNeverExceeded ==
    /\ [](inv.max_weight # None => UsedWeight(inv.stacks) <= inv.max_weight[1])
    /\ [][\A item \in Items, qty \in Quantities :
              (IsAdd(item, qty) /\ inv.max_weight # None
                 /\ UsedWeight(inv.stacks) + item.weight * qty > inv.max_weight[1])
              => iret'.out > 0]_vars

-----------------------------------------------------------------------------
\* C33: Inventory.remove(item_id, qty) removes and returns exactly
\* min(qty, count(item_id)) items of that id, never touches stacks of other
\* items, drains smaller stacks first, and deletes every stack that reaches
\* quantity 0, so used_slots equals the number of non-empty stacks.
C33_RemoveDrainsSmallestFirst ==
    /\ [][\A id \in ItemIds, qty \in Quantities :
              IsRemove(id, qty) =>
                  /\ iret'.out = Min(qty, Count(inv.stacks, id))
                  /\ Count(inv'.stacks, id) = Count(inv.stacks, id) - iret'.out
                  /\ OthersKept(inv.stacks, inv'.stacks, id)
                  /\ SameBag(QtysOf(inv'.stacks, id),
                             TakeFront(SortedQtys(QtysOf(inv.stacks, id)), iret'.out))
                  /\ \A i \in 1..Len(inv'.stacks) : inv'.stacks[i].qty > 0
                  /\ UsedSlots(inv'.stacks)
                        = Cardinality({i \in 1..Len(inv'.stacks) :
                                          inv'.stacks[i].qty > 0})]_vars

\* two potions removed from a stack of three, a sword and a stack of one:
\* the stack of one is gone and the stack of three holds two
C33_Witness ==
    /\ iret = [op |-> "remove", id |-> "potion", qty |-> 2, out |-> 2]
    /\ QtysOf(inv.stacks, "potion") = <<2>>
    /\ QtysOf(inv.stacks, "sword") = <<1>>

-----------------------------------------------------------------------------
(* Part 8b: the waiting indicator of the text view.                        *)
(* SpecIndicator queues lines with and without wait_for_input, one of them *)
(* empty, releases and animates them with the default fade-and-slide       *)
(* intro, and draws the visible entries into viewports 0, 25 and 45 wide.  *)

IndicatorLines == {ThreeWords, Empty}
\* frame times: half an intro, an intro less the tolerance
IndicatorDts == {IntroDuration \div 2, IntroDuration - Eps}

IndAppendLine ==
    /\ nextId < MaxViewEntries
    /\ \E x \in IndicatorLines, w \in BOOLEAN : AppendLine(x, TRUE, w)
    /\ UNCHANGED <<theme, view, vret>>
    /\ ViewRest

IndUpdate ==
    /\ \E dt \in IndicatorDts : Update(dt)
    /\ UNCHANGED <<theme, view, vret>>
    /\ ViewRest

IndPress ==
    /\ OnPlayerPress
    /\ UNCHANGED <<theme, view, vret>>
    /\ ViewRest

IndDrawInto == \E rw \in ViewRectWidths : ViewDrawInto(rw, DefaultRectH, 0)

NextIndicator ==
    \/ IndAppendLine
    \/ IndUpdate
    \/ IndPress
    \/ IndDrawInto

InitIndicator == BoxAtRest /\ PartsIdle

SpecIndicator == InitIndicator /\ [][NextIndicator]_vars

\* the last of the entries handed to draw_into
LastVisible == visible[Len(visible)]
\* a call of draw_into that recorded a position for the indicator
Anchored == vret'.indicator # None
\* the top of the last sub-line of the last entry: the foot of the content
\* less one line, moved by the slide of the entry
LastSubLineTop ==
    theme.padding_t + CachedHeight(view', theme, visible) - FontLineSize(theme)
    + EntrySlide(LastVisible)
\* the right end of the last sub-line of the last entry
LastSubLineEnd ==
    LET lines == view'.cache[LastVisible.id].lines
    IN  theme.padding_l + Measure(lines[Len(lines)])

\* C37 as stated: the waiting indicator is anchored exactly when the entry
\* list is non-empty and its last entry has wait_for_input=true and is fully
\* settled.
C37_AsStated ==
    [][IndDrawInto =>
          (Anchored <=> /\ visible # <<>>
                        /\ LastVisible.wait_for_input
                        /\ Settled(LastVisible))]_vars

\* C37: the waiting indicator is anchored exactly when the entry list is
\* non-empty and its last entry has wait_for_input=true, is laid out with at
\* least one sub-line (its text is not empty and the viewport has a width)
\* and is settled or within 1e-4 s of its duration: draw_into then records
\* the position at the end of the last sub-line of the last entry, and
\* records none in any other case.
C37_IndicatorAnchored ==
    [][IndDrawInto =>
          /\ Anchored <=> /\ visible # <<>>
                          /\ LastVisible.wait_for_input
                          /\ LastVisible.t >= LastVisible.duration - Eps
                          /\ LastVisible.id \in DOMAIN view'.cache
                          /\ view'.cache[LastVisible.id].lines # <<>>
          /\ Anchored =>
                vret'.indicator = Some([x_end |-> LastSubLineEnd,
                                        y_top |-> LastSubLineTop,
                                        line_h |-> FontLineSize(theme)])]_vars

\* two waiting lines of three words are shown and settled, and a draw into
\* the viewport two letters wide anchored the indicator behind the third
\* sub-line of the second
C37_Witness ==
    /\ vret.op = "draw_into" /\ ~vret.raised
    /\ view.wrap_w = 25
    /\ Len(visible) = 2
    /\ LastVisible.wait_for_input /\ Settled(LastVisible)
    /\ vret.indicator = Some([x_end |-> 28 + 20, y_top |-> 24 + 88 + 8 + 64,
                              line_h |-> 24])

-----------------------------------------------------------------------------
(* Part 8c: the hit test of the choice overlay on its own.                 *)
(* SpecHitTest calls ChoiceBox.hit_test once in each mode on a point, for  *)
(* no label, one label and three labels (the second of two sub-lines), in a *)
(* viewport 400 wide, where every label fits the panel.                    *)

\* theme.choice_padding, its right and left parts: (8, 10, 8, 10)
ChoicePadR == 10
ChoicePadL == 10

HitLabelLists == {<<>>, <<Hello>>, <<Hello, HelloWorld, HiDot>>}
HitViewportWidths == {400}
HitYTops == {0, 37}
\* from above the panel to below its last row, at the edges of the rows
HitPointYs == {0, 11, 12, 51, 52, 59, 60, 131, 132, 139, 140, 179, 180, 217}
\* from left of the text to right of the widest label
HitPointXs == {49, 50, 80, 100, 101, 110, 111}

\* max_text_w of _choice_box_metrics
ChoiceMaxTextW(th, vw) ==
    Max(0, vw - (th.choice_inset_px * 2 + ChoicePadL + ChoicePadR))

\* _wrap_text_to_width for a text that fits: its explicit lines, at least one
ChoiceSubLines(text) == IF SplitLines(text) = <<>> THEN << <<>> >> ELSE SplitLines(text)

\* widest = max((font.size(s)[0] for s in sub), default=0)
RECURSIVE Widest(_)
Widest(sub) == IF sub = <<>> THEN 0 ELSE Max(Measure(Head(sub)), Widest(Tail(sub)))

\* a row test that has no lower edge
RowBelow(y, item_h, vy) == y <= vy

\* "if y <= vy < y + item_h"
RowContains(y, item_h, vy) == y <= vy /\ vy < y + item_h

\* the loop of hit_test over the rows, with the pointer's x
RECURSIVE HitRowsAt(_, _, _, _, _, _, _, _, _)
HitRowsAt(th, lines, idx, y, vx, vy, x_text, max_w, strict_text_x) ==
    IF idx > Len(lines) THEN None
    ELSE LET item_h == ItemHeight(th, lines[idx])
             xt_max == Min(x_text + Widest(ChoiceSubLines(lines[idx])), x_text + max_w)
         IN  IF RowContains(y, item_h, vy)
             THEN IF ~strict_text_x THEN Some(idx - 1)
                  ELSE IF x_text <= vx /\ vx <= xt_max THEN Some(idx - 1)
                  ELSE None
             ELSE HitRowsAt(th, lines, idx + 1, y + item_h + th.line_spacing,
                            vx, vy, x_text, max_w, strict_text_x)

\* ChoiceBox.hit_test(viewport, lines, theme, fonts, y_top, (vx, vy), strict_text_x)
HitTestAt(th, vw, lines, y_top, vx, vy, strict_text_x) ==
    IF lines = <<>> THEN None
    ELSE HitRowsAt(th, lines, 1, y_top + th.choice_inset_px, vx, vy,
                   th.padding_l + th.choice_inset_px + ChoicePadL,
                   ChoiceMaxTextW(th, vw), strict_text_x)

InitHitTest ==
    /\ BoxAtRest
    /\ tw = NoTw /\ wr = NoWr /\ ViewIdle /\ PresenterIdle /\ InventoryIdle
    /\ \E ls \in HitLabelLists, y \in HitYTops, x \in HitPointXs, py \in HitPointYs :
          hit = [lines |-> ls, y_top |-> y, vx |-> x, vy |-> py, out |-> <<>>]

HitTestCall ==
    /\ hit.out = <<>>
    /\ \E vw \in HitViewportWidths :
          hit' = [hit EXCEPT !.out =
                    <<[lenient |-> HitTestAt(theme, vw, hit.lines, hit.y_top,
                                             hit.vx, hit.vy, FALSE),
                       strict |-> HitTestAt(theme, vw, hit.lines, hit.y_top,
                                            hit.vx, hit.vy, TRUE)]>>]
    /\ UNCHANGED <<modelvars, presses, snaps, boxvars, tw, wr, viewvars, presvars, invvars>>

NextHitTest == HitTestCall

SpecHitTest == InitHitTest /\ [][NextHitTest]_vars

\* both calls have returned
HitReturned == hit.out # <<>>
\* the top of row i (from 1) of the panel, and whether the point is in its span
HitRowTop(i) == DrawRowY(theme, hit.lines, hit.y_top + theme.choice_inset_px, i)
InRowSpan(i) ==
    /\ HitRowTop(i) <= hit.vy
    /\ hit.vy < HitRowTop(i) + ItemHeight(theme, hit.lines[i])
RowsAtPoint == {i \in 1..Len(hit.lines) : InRowSpan(i)}
FirstRowAtPoint == CHOOSE i \in RowsAtPoint : \A j \in RowsAtPoint : i <= j

\* C38: choice hit-testing returns the first row whose vertical span
\* contains the point: the strict mode result is either the lenient result
\* for the same point or no selection (strict never returns a different
\* row), a point in the gap between rows or outside all rows yields no
\* selection in both modes, and an empty label set always yields no
\* selection.
C38_HitTestFirstRow ==
    HitReturned =>
       LET out == hit.out[1]
       IN  /\ out.lenient = IF RowsAtPoint = {} THEN None
                            ELSE Some(FirstRowAtPoint - 1)
           /\ out.strict \in {out.lenient, None}
           /\ RowsAtPoint = {} => out.lenient = None /\ out.strict = None
           /\ hit.lines = <<>> => out.lenient = None /\ out.strict = None

\* the point is in the span of the second of three rows, right of its text:
\* the row-wide test gives the row, the strict one nothing
C38_Witness ==
    /\ HitReturned
    /\ Len(hit.lines) = 3
    /\ RowsAtPoint = {2}
    /\ hit.vx = 111
    /\ hit.out[1].lenient = Some(1)
    /\ hit.out[1].strict = None

-----------------------------------------------------------------------------
(* Part 9: the presenter's sliding window over the transcript.             *)
(* SpecTranscript builds the NodePresenter with clear_after_nodes None, 0, *)
(* 1 or 2, with or without the node separator (separator_text ""), over a  *)
(* story of three nodes in a chain; all content of the box comes from      *)
(* show_node and submit_choice_index.                                      *)

\* Entries created over a run: the lines of the three nodes, the echoes of
\* the choices and the separators between the nodes.
MaxTranscriptEntries == 9

ClearAfterNodes == {None, Some(0), Some(1), Some(2)}

\* Story.nodes: start leads to mid, mid leads to end or to a node the story
\* does not have, end offers nothing
ChainNodes ==
    [start |-> Node(HelloWorld, <<Choice(Go, Go, Some("mid"))>>),
     mid   |-> Node(HiDot, <<Choice(Go, Empty, Some("end")),
                             Choice(Lost, Lost, Some("lost"))>>),
     end   |-> Node(World, <<>>)]

\* NodePresenter(tb, story, clear_after_nodes=n, insert_node_separator=sep)
PresenterBuilt(n, sep) ==
    [NoPresenter EXCEPT !.story = ChainNodes,
                        !.clear_after_nodes = n,
                        !.insert_node_separator = sep,
                        !.separator_text = Empty]

InitTranscript ==
    /\ BoxAtRest
    /\ tw = NoTw /\ wr = NoWr /\ ViewIdle /\ InventoryIdle /\ HitIdle
    /\ submitted = None
    /\ presenter \in {PresenterBuilt(n, sep) : n \in ClearAfterNodes, sep \in BOOLEAN}

\* a submit may echo one entry, separate it and queue the line of the next node
TranscriptSubmit ==
    /\ nextId + 3 <= MaxTranscriptEntries
    /\ \E idx \in SubmitIndices : SubmitChoiceIndex(idx)
TranscriptUpdate == BoxUpdate(IntroDuration) /\ UNCHANGED presvars /\ PresRest

NextTranscript ==
    \/ ShowStart
    \/ PresenterUpdate
    \/ TranscriptSubmit
    \/ TranscriptUpdate
    \/ PresBoxPress

SpecTranscript == InitTranscript /\ [][NextTranscript]_vars

-----------------------------------------------------------------------------
(* Vocabulary of the transcript claims *)

\* what the box holds, oldest first
Transcript == visible \o pending

\* the share of the transcript that the i-th tracked node counts
SegmentOf(sizes, i) ==
    LET before == SeqSum(SubSeq(sizes, 1, i - 1))
    IN  SubSeq(Transcript, before + 1, before + sizes[i])

\* the three kinds of entry the presenter makes
IsSay(e) == e.wait_for_input
IsEcho(e) == e.is_player_choice /\ ~e.wait_for_input
IsSeparator(e) == ~e.is_player_choice /\ ~e.wait_for_input

\* seg is one node of the story: all of its say lines, then the echoes of
\* the choices made there, then at most one separator
WholeNode(seg) ==
    \E k \in DOMAIN presenter.story :
       LET lines == SplitLines(presenter.story[k].say)
           n == Len(lines)
       IN  /\ Len(seg) >= n
           /\ Texts(SubSeq(seg, 1, n)) = lines
           /\ \A j \in 1..n : IsSay(seg[j])
           /\ \A j \in (n + 1)..Len(seg) :
                 \/ IsEcho(seg[j])
                 \/ IsSeparator(seg[j]) /\ j = Len(seg)
                                        /\ seg[j].text = presenter.separator_text

\* only the oldest entries ever went: the box holds the newest entries, in
\* the order they were made
NewestKept ==
    \A i \in 1..Len(Transcript) :
       Transcript[i].id = nextId - Len(Transcript) + i - 1

\* a call of show_node: the start, or the node a submitted choice leads to
ShowNodeCalled ==
    /\ ShowStart \/ \E idx \in SubmitIndices : SubmitChoiceIndex(idx)
    /\ pending' # pending

-----------------------------------------------------------------------------
\* C36: with clear_after_nodes = 0 the transcript keeps only the current
\* node: after every show_node, the textbox's visible and pending entries
\* are exactly the lines of the node just shown, and all entries of earlier
\* nodes (including choice echoes) have been removed.
C36_KeepsOnlyCurrentNode ==
    [][(presenter.clear_after_nodes = Some(0) /\ ShowNodeCalled) =>
          /\ visible' = <<>>
          /\ \E k \in DOMAIN presenter.story :
                Texts(pending') = SplitLines(presenter.story[k].say)]_vars

-----------------------------------------------------------------------------
\* C40: presenter bookkeeping matches the transcript: with clear_after_nodes
\* None or N > 0, after every show_node and submit_choice_index the sum of
\* the per-node sizes equals the number of visible plus pending entries, at
\* most N nodes are tracked when N > 0, and each trim removes exactly the
\* entries (lines, separator, choice echo) of whole oldest nodes: what is
\* left is the newest entries, and the sizes cut it into whole nodes.
C40_BookkeepingMatchesTranscript ==
    presenter.clear_after_nodes # Some(0) =>
       /\ SeqSum(presenter.node_sizes) = Len(visible) + Len(pending)
       /\ presenter.clear_after_nodes # None =>
             Len(presenter.node_sizes) <= presenter.clear_after_nodes[1]
       /\ NewestKept
       /\ \A i \in 1..Len(presenter.node_sizes) :
             WholeNode(SegmentOf(presenter.node_sizes, i))

\* a window of one node with separators: the choice of the start node was
\* submitted, and its two lines, the echo and the separator went as the one
\* line of the next node was queued
C40_Witness ==
    /\ presenter.clear_after_nodes = Some(1)
    /\ presenter.insert_node_separator
    /\ presenter.node_sizes = <<1>>
    /\ visible = <<>>
    /\ Texts(pending) = <<HiDot>>
    /\ nextId = 5

====
